---- MODULE Spec2Model ----
(***************************************************************************)
(* Model of the lead pipeline of enzoofs/lead-test1: the staged, resumable *)
(* pipeline controller (src/src/pipeline.py), the scoring engine           *)
(* (src/src/scoring.py), the deduplication cache (src/src/cache.py) and    *)
(* the external sync collaborator (src/src/integrations/airtable_sync.py). *)
(***************************************************************************)
EXTENDS Integers, Sequences, FiniteSets, TLC

(***************************************************************************)
(* Bounds of the model.                                                    *)
(***************************************************************************)
\* longest raw result list the search collaborator returns in one call
MaxFound == 2
\* number of processes (one run each) in one behaviour
MaxRuns == 2

(***************************************************************************)
(* Text: a string is a tuple of one-character strings, so that lower() and *)
(* strip() are computed and not assumed.                                   *)
(***************************************************************************)
LowerChar(c) ==
    IF c = "A" THEN "a" ELSE IF c = "B" THEN "b" ELSE IF c = "H" THEN "h" ELSE c

Lower(s) == [i \in 1..Len(s) |-> LowerChar(s[i])]

RECURSIVE LStrip(_)
LStrip(s) == IF s # <<>> /\ Head(s) = " " THEN LStrip(Tail(s)) ELSE s

RECURSIVE RStrip(_)
RStrip(s) ==
    IF s # <<>> /\ s[Len(s)] = " " THEN RStrip(SubSeq(s, 1, Len(s) - 1)) ELSE s

Strip(s) == RStrip(LStrip(s))

(***************************************************************************)
(* Entity model (src/src/models.py).  A present optional string is TRUE,   *)
(* None is FALSE; rating is in tenths of a star and 0 stands for None;     *)
(* instagram_last_post is the age of the post in days on day 0 of the      *)
(* clock, -1 for None.                                                     *)
(***************************************************************************)
DefaultCidade == <<"B", "H">>

Lead(nome, categoria) ==
    [ nome |-> nome, categoria |-> categoria, cidade |-> DefaultCidade,
      endereco |-> 0, telefone |-> FALSE, email |-> FALSE,
      site |-> "none", site_ativo |-> FALSE, site_https |-> FALSE,
      instagram |-> FALSE, instagram_last_post |-> -1,
      linkedin |-> "none", linkedin_company_id |-> FALSE,
      rating |-> 0, num_reviews |-> 0, hours |-> FALSE,
      score |-> 0, classificacao |-> "low",
      social_enriched |-> FALSE, score_calculated |-> FALSE,
      synced_to_airtable |-> FALSE ]

\* SocialProfiles(): a fresh value object, every field None
SocialProfiles ==
    [ instagram |-> FALSE, instagram_last_post |-> -1,
      linkedin |-> "none", linkedin_company_id |-> FALSE ]

SetSocial(lead, social) ==
    [lead EXCEPT !.instagram = social.instagram,
                 !.instagram_last_post = social.instagram_last_post,
                 !.linkedin = social.linkedin,
                 !.linkedin_company_id = social.linkedin_company_id]

(***************************************************************************)
(* Scoring engine (src/src/scoring.py, config/settings.py).                *)
(***************************************************************************)
SCORING_WEIGHTS ==
    [ tem_telefone |-> 10, tem_email |-> 10, tem_site |-> 10,
      site_com_https |-> 5, site_ativo |-> 5,
      tem_instagram |-> 10, instagram_ativo |-> 5,
      tem_linkedin |-> 10, linkedin_company_page |-> 5,
      rating_alto |-> 10, muitas_reviews |-> 10,
      horario_funcionamento |-> 5, categoria_relevante |-> 5 ]

\* LEAD_CLASSIFICATION in the iteration order of the dict
LEAD_CLASSIFICATION ==
    << <<"hot", 80, 100>>, <<"warm", 60, 79>>, <<"cold", 40, 59>>, <<"low", 0, 39>> >>

PRIORITY_CATEGORIES ==
    { "clinica medica", "clinica odontologica", "escritorio advocacia",
      "escritorio contabilidade", "imobiliaria" }

PRIORITY_BONUS == 5

\* dict.get(key, default)
WeightGet(weights, key, default) ==
    IF key \in DOMAIN weights THEN weights[key] ELSE default

Max2(a, b) == IF a >= b THEN a ELSE b
Min2(a, b) == IF a <= b THEN a ELSE b

\* a scorer for which no category is a priority category
IsPriorityNever(lead) == FALSE

\* str.lower() on a category: the one category of the model written with
\* capitals, every other one is lower-case already
CategoriaLower(c) == IF c = "Clinica Medica" THEN "clinica medica" ELSE c

\* lead.categoria.lower() in [c.lower() for c in PRIORITY_CATEGORIES]
IsPriority(lead) ==
    CategoriaLower(lead.categoria) \in {CategoriaLower(c) : c \in PRIORITY_CATEGORIES}

ScoreContactData(weights, lead) ==
      (IF lead.telefone THEN WeightGet(weights, "tem_telefone", 10) ELSE 0)
    + (IF lead.email THEN WeightGet(weights, "tem_email", 10) ELSE 0)
    + (IF lead.site # "none"
         THEN WeightGet(weights, "tem_site", 10)
              + (IF lead.site_https THEN WeightGet(weights, "site_com_https", 5) ELSE 0)
              + (IF lead.site_ativo THEN WeightGet(weights, "site_ativo", 5) ELSE 0)
         ELSE 0)

\* a scorer that gives no credit for social profiles
ScoreDigitalPresenceNone(weights, lead) == 0

\* a scorer that rounds the credit of an Instagram profile of unknown
\* activity up instead of down
ScoreDigitalPresenceHalfUp(weights, lead) ==
      (IF lead.instagram
         THEN WeightGet(weights, "tem_instagram", 10)
              + (IF lead.instagram_last_post # -1
                   THEN (IF lead.instagram_last_post <= 30
                           THEN WeightGet(weights, "instagram_ativo", 5) ELSE 0)
                   ELSE (WeightGet(weights, "instagram_ativo", 5) + 1) \div 2)
         ELSE 0)
    + (IF lead.linkedin # "none"
         THEN WeightGet(weights, "tem_linkedin", 10)
              + (IF lead.linkedin_company_id \/ lead.linkedin = "company"
                   THEN WeightGet(weights, "linkedin_company_page", 5) ELSE 0)
         ELSE 0)

ScoreDigitalPresence(weights, lead) ==
      (IF lead.instagram
         THEN WeightGet(weights, "tem_instagram", 10)
              + (IF lead.instagram_last_post # -1
                   THEN (IF lead.instagram_last_post <= 30
                           THEN WeightGet(weights, "instagram_ativo", 5) ELSE 0)
                   ELSE WeightGet(weights, "instagram_ativo", 5) \div 2)
         ELSE 0)
    + (IF lead.linkedin # "none"
         THEN WeightGet(weights, "tem_linkedin", 10)
              + (IF lead.linkedin_company_id \/ lead.linkedin = "company"
                   THEN WeightGet(weights, "linkedin_company_page", 5) ELSE 0)
         ELSE 0)

\* a quality block without the category credit of lines 237-242
ScoreBusinessQualityNoFit(weights, lead) ==
      (IF lead.rating # 0
         THEN (IF lead.rating >= 40 THEN WeightGet(weights, "rating_alto", 10)
               ELSE IF lead.rating >= 35 THEN WeightGet(weights, "rating_alto", 10) \div 2
               ELSE 0)
         ELSE 0)
    + (IF lead.num_reviews # 0
         THEN (IF lead.num_reviews >= 50 THEN WeightGet(weights, "muitas_reviews", 10)
               ELSE IF lead.num_reviews >= 20
                 THEN WeightGet(weights, "muitas_reviews", 10) \div 2
               ELSE 0)
         ELSE 0)
    + (IF lead.hours THEN WeightGet(weights, "horario_funcionamento", 5) ELSE 0)

ScoreBusinessQuality(weights, lead) ==
      (IF lead.rating # 0
         THEN (IF lead.rating >= 40 THEN WeightGet(weights, "rating_alto", 10)
               ELSE IF lead.rating >= 35 THEN WeightGet(weights, "rating_alto", 10) \div 2
               ELSE 0)
         ELSE 0)
    + (IF lead.num_reviews # 0
         THEN (IF lead.num_reviews >= 50 THEN WeightGet(weights, "muitas_reviews", 10)
               ELSE IF lead.num_reviews >= 20
                 THEN WeightGet(weights, "muitas_reviews", 10) \div 2
               ELSE 0)
         ELSE 0)
    + (IF lead.hours THEN WeightGet(weights, "horario_funcionamento", 5) ELSE 0)
    + (IF IsPriority(lead) THEN WeightGet(weights, "categoria_relevante", 5) ELSE 0)

\* a classifier that takes the upper end of a range as excluded
RECURSIVE ClassifyFromExclusive(_, _)
ClassifyFromExclusive(table, score) ==
    IF table = <<>> THEN "low"
    ELSE IF Head(table)[2] <= score /\ score < Head(table)[3] THEN Head(table)[1]
    ELSE ClassifyFromExclusive(Tail(table), score)

RECURSIVE ClassifyFrom(_, _)
ClassifyFrom(table, score) ==
    IF table = <<>> THEN "low"
    ELSE IF Head(table)[2] <= score /\ score <= Head(table)[3] THEN Head(table)[1]
    ELSE ClassifyFrom(Tail(table), score)

ClassifyLead(score) == ClassifyFrom(LEAD_CLASSIFICATION, score)

RawScore(weights, lead) ==
      ScoreContactData(weights, lead)
    + ScoreDigitalPresence(weights, lead)
    + ScoreBusinessQuality(weights, lead)
    + (IF IsPriority(lead) THEN PRIORITY_BONUS ELSE 0)

\* LeadScorer.__init__: `weights or SCORING_WEIGHTS` (an empty dict is falsy)
LeadScorer(weights) == IF DOMAIN weights = {} THEN SCORING_WEIGHTS ELSE weights

\* a scorer without the clamp of line 72
CalculateScoreUnclamped(weights, lead) ==
    [lead EXCEPT !.score = RawScore(weights, lead),
                 !.classificacao = ClassifyLead(RawScore(weights, lead)),
                 !.score_calculated = TRUE]

\* a scorer that writes the score and leaves the classification alone
CalculateScoreOnly(weights, lead) ==
    [lead EXCEPT !.score = Max2(0, Min2(100, RawScore(weights, lead))),
                 !.score_calculated = TRUE]

\* a scorer that adds the new points to the score the lead carries
CalculateScoreAccumulating(weights, lead) ==
    LET score == Max2(0, Min2(100, lead.score + RawScore(weights, lead)))
    IN  [lead EXCEPT !.score = score,
                     !.classificacao = ClassifyLead(score),
                     !.score_calculated = TRUE]

CalculateScore(weights, lead) ==
    LET score == Max2(0, Min2(100, RawScore(weights, lead)))
    IN  [lead EXCEPT !.score = score,
                     !.classificacao = ClassifyLead(score),
                     !.score_calculated = TRUE]

\* line 161: days_ago = (datetime.now() - social.instagram_last_post).days,
\* read `now` days after day 0 of the clock
AtDay(lead, now) ==
    IF lead.instagram_last_post = -1 THEN lead
    ELSE [lead EXCEPT !.instagram_last_post = @ + now]

\* calculate_score called `now` days after day 0: the post's date is not
\* changed by the call
CalculateScoreAt(weights, lead, now) ==
    [CalculateScore(weights, AtDay(lead, now)) EXCEPT
        !.instagram_last_post = lead.instagram_last_post]

\* an insertion that puts a lead before the leads of equal score
RECURSIVE InsertByScoreUnstable(_, _)
InsertByScoreUnstable(sorted, lead) ==
    IF sorted = <<>> THEN <<lead>>
    ELSE IF Head(sorted).score > lead.score
      THEN <<Head(sorted)>> \o InsertByScoreUnstable(Tail(sorted), lead)
      ELSE <<lead>> \o sorted

\* list.sort(key=score, reverse=True): stable, descending
RECURSIVE InsertByScore(_, _)
InsertByScore(sorted, lead) ==
    IF sorted = <<>> THEN <<lead>>
    ELSE IF Head(sorted).score >= lead.score
      THEN <<Head(sorted)>> \o InsertByScore(Tail(sorted), lead)
      ELSE <<lead>> \o sorted

RECURSIVE SortByScore(_)
SortByScore(leads) ==
    IF leads = <<>> THEN <<>>
    ELSE InsertByScore(SortByScore(SubSeq(leads, 1, Len(leads) - 1)), leads[Len(leads)])

\* what calculate_score does on a lead: it returns, or it raises (a lead
\* whose social or google_maps object or category was set to None)
ScoreOutcomes == {"ok", "raises"}

\* lines 264-272: the loop; a lead whose scoring raises is appended as it is
ScoreEach(weights, leads, os) ==
    [i \in 1..Len(leads) |->
        IF os[i] = "ok" THEN CalculateScore(weights, leads[i]) ELSE leads[i]]

\* the leads whose scoring returns
RECURSIVE OkLeads(_, _)
OkLeads(leads, os) ==
    IF leads = <<>> THEN <<>>
    ELSE (IF Head(os) = "ok" THEN <<Head(leads)>> ELSE <<>>)
         \o OkLeads(Tail(leads), Tail(os))

\* a loop that drops the lead whose scoring raises
ScoreLeadsDropping(weights, leads, os) ==
    LET kept == OkLeads(leads, os)
    IN  SortByScore([i \in 1..Len(kept) |-> CalculateScore(weights, kept[i])])

\* score_leads, the outcome of each lead's scoring given
ScoreLeadsOutcomes(weights, leads, os) == SortByScore(ScoreEach(weights, leads, os))

\* a scorer that returns only the leads worth following up
ScoreLeadsAboveLow(weights, leads) ==
    SelectSeq(SortByScore([i \in 1..Len(leads) |-> CalculateScore(weights, leads[i])]),
              LAMBDA l : l.classificacao # "low")

\* in run() no lead makes scoring raise: every field is well typed
ScoreLeads(weights, leads) ==
    ScoreLeadsOutcomes(weights, leads, [i \in 1..Len(leads) |-> "ok"])

RECURSIVE SumScores(_)
SumScores(leads) ==
    IF leads = <<>> THEN 0 ELSE Head(leads).score + SumScores(Tail(leads))

\* a count that leaves out the leads not scored yet
CountClassScored(leads, cls) ==
    Cardinality({i \in 1..Len(leads) :
                    leads[i].classificacao = cls /\ leads[i].score_calculated})

CountClass(leads, cls) ==
    Cardinality({i \in 1..Len(leads) : leads[i].classificacao = cls})

\* get_summary: {} for an empty list; score_medio is kept as the pair
\* (sum, count) the quotient is taken of
GetSummary(leads) ==
    IF leads = <<>> THEN [empty |-> TRUE]
    ELSE [ empty |-> FALSE,
           total |-> Len(leads),
           score_sum |-> SumScores(leads),
           score_max |-> CHOOSE m \in {leads[i].score : i \in 1..Len(leads)} :
                            \A i \in 1..Len(leads) : leads[i].score <= m,
           score_min |-> CHOOSE m \in {leads[i].score : i \in 1..Len(leads)} :
                            \A i \in 1..Len(leads) : leads[i].score >= m,
           hot_leads |-> CountClass(leads, "hot"),
           warm_leads |-> CountClass(leads, "warm"),
           cold_leads |-> CountClass(leads, "cold"),
           low_leads |-> CountClass(leads, "low") ]

(***************************************************************************)
(* Search collaborator (src/src/scrapers/google_maps_serpapi.py).  The     *)
(* provider's listings are a small catalogue; listings 1 and 2 carry the   *)
(* same name up to case and blanks at different addresses.                 *)
(***************************************************************************)
Catalog ==
    << [Lead(<<"a">>, "clinica medica") EXCEPT
            !.endereco = 1, !.telefone = TRUE, !.site = "web",
            !.site_https = TRUE, !.rating = 45, !.num_reviews = 60],
       [Lead(<<"A", " ">>, "restaurante") EXCEPT
            !.endereco = 2, !.rating = 36, !.num_reviews = 25] >>

\* _deduplicate: the first lead of each lower(nome)|endereco key is kept
DedupKey(lead) == <<Lower(lead.nome), lead.endereco>>

RECURSIVE Deduplicate(_, _)
Deduplicate(leads, seen) ==
    IF leads = <<>> THEN <<>>
    ELSE IF DedupKey(Head(leads)) \in seen
      THEN Deduplicate(Tail(leads), seen)
      ELSE <<Head(leads)>> \o Deduplicate(Tail(leads), seen \cup {DedupKey(Head(leads))})

\* the raw lists the provider may return over all categories
RawSearches == UNION {[1..n -> 1..Len(Catalog)] : n \in 0..MaxFound}

SearchAllCategories(raw) ==
    Deduplicate([i \in 1..Len(raw) |-> Catalog[raw[i]]], {})

(***************************************************************************)
(* Site-analysis collaborator (src/src/enrichers/website_analyzer.py).     *)
(***************************************************************************)
\* what one GET of the lead's site may answer
SiteResponses ==
    { [kind |-> "error", ok |-> FALSE, https |-> FALSE, email |-> FALSE],
      [kind |-> "resp", ok |-> TRUE, https |-> TRUE, email |-> TRUE] }

Analyze(lead, r) ==
    IF lead.site = "none" THEN lead
    ELSE IF r.kind = "error" THEN [lead EXCEPT !.site_ativo = FALSE]
    ELSE [lead EXCEPT !.site_ativo = r.ok,
                      !.site_https = r.https,
                      !.email = IF r.ok /\ ~lead.email THEN r.email ELSE @]

AnalyzeLeads(leads, rs) == [i \in 1..Len(leads) |-> Analyze(leads[i], rs[i])]

(***************************************************************************)
(* Social-extraction collaborator (src/src/enrichers/social_extractor.py). *)
(***************************************************************************)
\* what the pages of one site may yield; "raise" is extract() raising
SocialPages ==
    { [kind |-> "raise", instagram |-> FALSE, linkedin |-> "none", email |-> FALSE],
      [kind |-> "page", instagram |-> TRUE, linkedin |-> "company", email |-> TRUE] }

ParseSocialLinks(p) ==
    [SocialProfiles EXCEPT !.instagram = p.instagram,
                           !.linkedin = p.linkedin,
                           !.linkedin_company_id = (p.linkedin = "company")]

Extract(lead, p) ==
    IF lead.site = "none" THEN lead
    ELSE IF lead.site = "insta"
      THEN [SetSocial(lead, [SocialProfiles EXCEPT !.instagram = p.instagram])
               EXCEPT !.site_ativo = FALSE, !.social_enriched = TRUE]
    ELSE [SetSocial(lead, ParseSocialLinks(p))
               EXCEPT !.email = IF p.email /\ ~lead.email THEN TRUE ELSE @,
                      !.social_enriched = TRUE,
                      !.site_ativo = TRUE]

\* enrich_leads: a lead whose extraction raises is passed through
EnrichLeads(leads, ps) ==
    [i \in 1..Len(leads) |->
        IF ps[i].kind = "raise" THEN leads[i] ELSE Extract(leads[i], ps[i])]

(***************************************************************************)
(* Optional enrichment collaborator (src/src/enrichers/hunter_enricher.py) *)
(***************************************************************************)
\* answers of one domain search: None, or data with an e-mail and a LinkedIn
HunterData ==
    { [found |-> FALSE, email |-> FALSE, linkedin |-> "none"],
      [found |-> TRUE, email |-> TRUE, linkedin |-> "personal"] }

HunterEnrich(lead, d) ==
    IF ~d.found THEN lead
    ELSE [lead EXCEPT !.email = IF ~lead.email /\ d.email THEN TRUE ELSE @,
                      !.linkedin = IF lead.linkedin = "none" THEN d.linkedin ELSE @]

\* a loop that never looks at the credits left
RECURSIVE HunterLoopNoBudget(_, _, _, _)
HunterLoopNoBudget(leads, ds, remaining, used) ==
    IF leads = <<>> THEN <<>>
    ELSE IF Head(leads).site # "none"
      THEN <<HunterEnrich(Head(leads), Head(ds))>>
           \o HunterLoopNoBudget(Tail(leads), Tail(ds), remaining, used + 1)
    ELSE <<Head(leads)>> \o HunterLoopNoBudget(Tail(leads), Tail(ds), remaining, used)

\* the counter `used` when the loop of enrich_leads ends: one per call of
\* enrich, each of which sends at most one domain search
RECURSIVE HunterUsed(_, _, _)
HunterUsed(leads, remaining, used) ==
    IF leads = <<>> THEN used
    ELSE IF used >= remaining THEN HunterUsed(Tail(leads), remaining, used)
    ELSE IF Head(leads).site # "none"
      THEN HunterUsed(Tail(leads), remaining, used + 1)
    ELSE HunterUsed(Tail(leads), remaining, used)

RECURSIVE HunterLoop(_, _, _, _)
HunterLoop(leads, ds, remaining, used) ==
    IF leads = <<>> THEN <<>>
    ELSE IF used >= remaining
      THEN <<Head(leads)>> \o HunterLoop(Tail(leads), Tail(ds), remaining, used)
    ELSE IF Head(leads).site # "none"
      THEN <<HunterEnrich(Head(leads), Head(ds))>>
           \o HunterLoop(Tail(leads), Tail(ds), remaining, used + 1)
    ELSE <<Head(leads)>> \o HunterLoop(Tail(leads), Tail(ds), remaining, used)

HunterEnrichLeads(leads, ds, remaining) == HunterLoop(leads, ds, remaining, 0)

(***************************************************************************)
(* Deduplication cache (src/src/cache.py).  The hash of the key string is  *)
(* taken as injective: the key is the key string itself.                   *)
(***************************************************************************)
\* a key that takes name and city as they are written
GenerateKeyRaw(lead) == lead.nome \o <<"|">> \o lead.cidade

GenerateKey(lead) == Strip(Lower(lead.nome)) \o <<"|">> \o Strip(Lower(lead.cidade))

EmptyCache == [leads |-> <<>>, total_processed |-> 0, duplicates_skipped |-> 0]

\* the entry add writes on day `now` (added_at and updated_at are the same
\* day; only added_at is read again)
CacheEntryAt(lead, now) ==
    [ nome |-> lead.nome, categoria |-> lead.categoria, cidade |-> lead.cidade,
      telefone |-> lead.telefone, email |-> lead.email, site |-> lead.site,
      instagram |-> lead.instagram, linkedin |-> lead.linkedin,
      score |-> lead.score, classificacao |-> lead.classificacao,
      added_at |-> now ]

\* run() is taken to happen on day 0 of the clock
CacheEntry(lead) == CacheEntryAt(lead, 0)

Exists(c, lead) == GenerateKey(lead) \in DOMAIN c.leads

\* an add that counts a fingerprint only the first time it is stored
CacheAddAtCountingNew(c, lead, now) ==
    [c EXCEPT !.leads = (GenerateKey(lead) :> CacheEntryAt(lead, now)) @@ @,
              !.total_processed = IF GenerateKey(lead) \in DOMAIN c.leads
                                    THEN @ ELSE @ + 1]

CacheAddAt(c, lead, now) ==
    [c EXCEPT !.leads = (GenerateKey(lead) :> CacheEntryAt(lead, now)) @@ @,
              !.total_processed = @ + 1]

CacheAdd(c, lead) == CacheAddAt(c, lead, 0)

RECURSIVE AddManyAt(_, _, _)
AddManyAt(c, leads, now) ==
    IF leads = <<>> THEN c
    ELSE AddManyAt(CacheAddAt(c, Head(leads), now), Tail(leads), now)

AddMany(c, leads) == AddManyAt(c, leads, 0)

RECURSIVE NewLeads(_, _)
NewLeads(c, leads) ==
    IF leads = <<>> THEN <<>>
    ELSE IF ~Exists(c, Head(leads))
      THEN <<Head(leads)>> \o NewLeads(c, Tail(leads))
      ELSE NewLeads(c, Tail(leads))

\* a filter that counts the leads it returns
FilterNewCacheCountsNew(c, leads) ==
    [c EXCEPT !.duplicates_skipped = @ + Len(NewLeads(c, leads))]

\* filter_new: the cache after the call (the counter moves, nothing is saved)
FilterNewCache(c, leads) ==
    [c EXCEPT !.duplicates_skipped = @ + (Len(leads) - Len(NewLeads(c, leads)))]

\* clear(): the cache after the call
ClearCache == EmptyCache

\* a clear_old that also removes the entries added exactly at the cutoff
ClearOldInclusive(c, now, days) ==
    LET old == {k \in DOMAIN c.leads : c.leads[k].added_at <= now - days}
    IN  [ cache |-> [c EXCEPT !.leads = [k \in DOMAIN c.leads \ old |-> c.leads[k]]],
          removed |-> Cardinality(old) ]

\* clear_old(days) called on day `now`: the cache after the call and the
\* number returned
ClearOld(c, now, days) ==
    LET old == {k \in DOMAIN c.leads : c.leads[k].added_at < now - days}
    IN  [ cache |-> [c EXCEPT !.leads = [k \in DOMAIN c.leads \ old |-> c.leads[k]]],
          removed |-> Cardinality(old) ]

\* the JSON object {}: it parses, and has neither "leads" nor "stats"
NoKeysCache == <<>>

\* self._cache["leads"] and self._cache["stats"] can be read
HasKeys(c) == "leads" \in DOMAIN c

\* _load_cache: the file's content, or the empty cache when the file is
\* missing or cannot be parsed
LoadCache(file) == IF file.state = "full" THEN file.data ELSE EmptyCache

(***************************************************************************)
(* External sync collaborator (src/src/integrations/airtable_sync.py).     *)
(* The remote table is the number of records per (Nome, Cidade).           *)
(***************************************************************************)
RemoteKey(lead) == <<lead.nome, lead.cidade>>

RemoteCount(r, k) == IF k \in DOMAIN r THEN r[k] ELSE 0

\* one lead's upsert: "ok", "lookup_failed" (_find_existing swallowed an
\* error and answered None) or "error" (update/create raised)
SyncOutcomes == {"ok", "lookup_failed", "error"}

\* the outcomes drawn in a pipeline run
RunSyncOutcomes == {"ok", "error"}

SyncCreates(r, lead, o) ==
    \/ o = "lookup_failed"
    \/ o = "ok" /\ RemoteCount(r, RemoteKey(lead)) = 0

\* a loop that gives the batch up at the first lead that fails
RECURSIVE SyncLoopAborting(_, _, _)
SyncLoopAborting(leads, os, acc) ==
    IF leads = <<>> THEN acc
    ELSE LET lead == Head(leads)
             o == Head(os)
             creates == o = "lookup_failed"
                        \/ (o = "ok" /\ (IF <<lead.nome, lead.cidade>> \in DOMAIN acc.remote
                                            THEN acc.remote[<<lead.nome, lead.cidade>>]
                                            ELSE 0) = 0)
         IN  IF o = "error"
               THEN [acc EXCEPT !.leads = Append(@, lead), !.errors = @ + 1]
             ELSE SyncLoopAborting(Tail(leads), Tail(os),
                    IF creates
                      THEN [acc EXCEPT
                             !.leads = Append(@, [lead EXCEPT !.synced_to_airtable = TRUE]),
                             !.created = @ + 1,
                             !.remote = (<<lead.nome, lead.cidade>> :> 1) @@ @]
                      ELSE [acc EXCEPT
                             !.leads = Append(@, [lead EXCEPT !.synced_to_airtable = TRUE]),
                             !.updated = @ + 1])

RECURSIVE SyncLoop(_, _, _)
SyncLoop(leads, os, acc) ==
    IF leads = <<>> THEN acc
    ELSE LET lead == Head(leads)
             o == Head(os)
             creates == SyncCreates(acc.remote, lead, o)
         IN  SyncLoop(Tail(leads), Tail(os),
               IF o = "error"
                 THEN [acc EXCEPT !.leads = Append(@, lead), !.errors = @ + 1]
               ELSE IF creates
                 THEN [acc EXCEPT
                        !.leads = Append(@, [lead EXCEPT !.synced_to_airtable = TRUE]),
                        !.created = @ + 1,
                        !.remote = (RemoteKey(lead) :> RemoteCount(@, RemoteKey(lead)) + 1) @@ @]
               ELSE [acc EXCEPT
                        !.leads = Append(@, [lead EXCEPT !.synced_to_airtable = TRUE]),
                        !.updated = @ + 1])

\* sync_leads: the leads after the call, the counts and the remote table
SyncLeads(leads, os, r) ==
    SyncLoop(leads, os,
        [leads |-> <<>>, created |-> 0, updated |-> 0, errors |-> 0, remote |-> r])

(***************************************************************************)
(* Pipeline controller (src/src/pipeline.py).                              *)
(*                                                                         *)
(* A file is [state, data]: state "nofile", "partial" (opened for writing  *)
(* and truncated, not yet written in full) or "full".                      *)
(***************************************************************************)
\* results of run(): a dict, here a function of its keys; started_at and
\* categories are constant during a run and left out
EmptyResults == [stages |-> <<>>]

NoCheckpoint == [stage |-> 0, leads |-> <<>>, results |-> EmptyResults]

NoFile == [state |-> "nofile", data |-> NoCheckpoint]

PartialFile == [state |-> "partial", data |-> NoCheckpoint]

NoCacheFile == [state |-> "nofile", data |-> EmptyCache]

PartialCacheFile == [state |-> "partial", data |-> EmptyCache]

\* the stage index each stage passes to _save_checkpoint
\* a controller whose fourth stage saves under the index of the third
CheckpointIndexRepeated(i) == IF i = 4 THEN 3 ELSE i

CheckpointIndex(i) == i

\* a record that leaves the accumulated summary out
CheckpointRecordNoSummary(stage, ls, res) ==
    [stage |-> stage, leads |-> [i \in 1..Len(ls) |-> ls[i]], results |-> EmptyResults]

\* _save_checkpoint: the record json.dump writes (lead.model_dump of every
\* lead: a copy by value of all fields)
CheckpointRecord(stage, ls, res) ==
    [stage |-> stage, leads |-> [i \in 1..Len(ls) |-> ls[i]], results |-> res]

\* _load_checkpoint: None when the file is missing or json.load raises
LoadCheckpoint(file) ==
    IF file.state = "full" THEN [found |-> TRUE, data |-> file.data]
    ELSE [found |-> FALSE, data |-> NoCheckpoint]

\* a controller that also runs the stage the checkpoint was written by
RunsStageAgain(rs, i) == rs <= i

\* `if resume_stage < i`
RunsStage(rs, i) == rs < i

\* results["stages"][name] = stats
SetStage(res, name, stats) == [res EXCEPT !.stages = (name :> stats) @@ @]

\* a controller without the `if not leads` return after the search
NextAfterSearchNoEmptyReturn(found, cacheOn, new) ==
    IF found # <<>> /\ cacheOn /\ new = <<>> THEN "duplicates" ELSE "save"

\* a controller without the return when the cache filter leaves nothing
NextAfterSearchNoDuplicatesReturn(found, cacheOn, new) ==
    IF found = <<>> THEN "empty" ELSE "save"

\* what stage 1 does with the leads found: "empty" and "duplicates" return
NextAfterSearch(found, cacheOn, new) ==
    IF found = <<>> THEN "empty"
    ELSE IF cacheOn /\ new = <<>> THEN "duplicates"
    ELSE "save"

CountLeads(ls, P(_)) == Cardinality({i \in 1..Len(ls) : P(ls[i])})

\* the leads handed to cache.add_many by the cache commit
LeadsToCache(ls, airtableOn) ==
    IF airtableOn
      THEN SelectSeq(ls, LAMBDA l : l.synced_to_airtable)
      ELSE ls

VARIABLES
    hunter,            \* self.hunter is not None
    sync_to_airtable,  \* constructor argument
    credentials,       \* the Airtable key and base id are configured
    airtable,          \* self.airtable is not None (sync asked for and set up)
    use_cache,         \* self.cache is not None
    cache,             \* LeadCache._cache of the running process
    cacheFile,         \* data/lead_cache.json
    ckptFile,          \* data/checkpoint.json
    remote,            \* the Airtable table
    pc,                \* position of the process in run()
    resume,            \* local `resume` after the checkpoint was looked up
    resume_stage,      \* local `resume_stage`
    leads,             \* local `leads`
    results,           \* local `results`
    saving,            \* stage index of the _save_checkpoint call under way
    conn,              \* answer of test_connection in this run
    resumeArg,         \* history: the argument `resume` of this run
    ckptAtStart,       \* history: the checkpoint file when run() was entered
    lastSaved,         \* history: the checkpoint last committed and not cleared
    calls,             \* history: collaborator operations called in this run
    executed,          \* history: stages whose block ran in this run
    written,           \* history: stage indexes passed to _save_checkpoint
    runs,              \* history: processes started
    arg,               \* a library operation called on its own: its input
    ret,               \* ... and what it returned
    ncalls             \* ... and the number of such calls

vars == << hunter, sync_to_airtable, credentials, airtable, use_cache, cache, cacheFile,
           ckptFile, remote, pc, resume, resume_stage, leads, results, saving,
           conn, resumeArg, ckptAtStart, lastSaved, calls, executed, written,
           runs, arg, ret, ncalls >>

\* the configuration and the variables run() never touches
env == << hunter, sync_to_airtable, credentials, airtable, use_cache,
         arg, ret, ncalls >>
disk == << cacheFile, ckptFile, remote >>
locals == << resume, resume_stage, leads, results, saving, conn >>
history == << resumeArg, ckptAtStart, lastSaved, calls, executed, written, runs >>

Ended == {"done", "returned", "failed", "killed"}
StagePcs == {"stage1", "stage2", "stage3", "stage4", "stage5"}
Running == StagePcs \cup {"ready", "preflight", "save_open", "save_write", "stage6",
                         "cache", "cache_open", "cache_write", "export", "finish"}

StageNo(p) ==
    IF p = "stage1" THEN 1 ELSE IF p = "stage2" THEN 2 ELSE IF p = "stage3" THEN 3
    ELSE IF p = "stage4" THEN 4 ELSE IF p = "stage5" THEN 5 ELSE 6

StagePc(i) ==
    IF i = 1 THEN "stage1" ELSE IF i = 2 THEN "stage2" ELSE IF i = 3 THEN "stage3"
    ELSE IF i = 4 THEN "stage4" ELSE IF i = 5 THEN "stage5" ELSE "stage6"

\* a controller that keeps the sync collaborator whose construction failed
InitAirtableUnchecked(sync, creds) == sync

\* _init_components, lines 105-114: AirtableSync() raises ValueError without
\* credentials; the controller catches it and sets self.airtable = None
InitAirtable(sync, creds) == sync /\ creds

\* the state before the first process, with or without Airtable credentials
StartPipeline(creds) ==
    /\ hunter \in BOOLEAN
    /\ sync_to_airtable \in BOOLEAN
    /\ credentials = creds
    /\ airtable = InitAirtable(sync_to_airtable, credentials)
    /\ use_cache \in BOOLEAN
    /\ cache = EmptyCache
    /\ cacheFile = NoCacheFile
    /\ ckptFile = NoFile
    /\ remote = <<>>
    /\ pc = "off"
    /\ resume = FALSE
    /\ resume_stage = 0
    /\ leads = <<>>
    /\ results = EmptyResults
    /\ saving = 0
    /\ conn = "none"
    /\ resumeArg = FALSE
    /\ ckptAtStart = NoFile
    /\ lastSaved = NoFile
    /\ calls = {}
    /\ executed = <<>>
    /\ written = <<>>
    /\ runs = 0

Start(creds) ==
    /\ StartPipeline(creds)
    /\ arg = <<>>
    /\ ret = <<>>
    /\ ncalls = 0

Init == Start(TRUE)

\* LeadPipeline(...): a new process; the cache file is loaded into memory
Construct ==
    /\ pc \in Ended \cup {"off"}
    /\ runs < MaxRuns
    /\ runs' = runs + 1
    /\ cache' = IF use_cache THEN LoadCache(cacheFile) ELSE EmptyCache
    /\ pc' = "ready"
    /\ resume' = FALSE
    /\ resume_stage' = 0
    /\ leads' = <<>>
    /\ results' = EmptyResults
    /\ saving' = 0
    /\ conn' = "none"
    /\ resumeArg' = FALSE
    /\ ckptAtStart' = NoFile
    /\ calls' = {}
    /\ executed' = <<>>
    /\ written' = <<>>
    /\ UNCHANGED << env, disk, lastSaved >>

\* run(), lines 190-219: look the checkpoint up when resume is asked for
RunBegin ==
    /\ pc = "ready"
    /\ \E r \in BOOLEAN :
         LET checkpoint == LoadCheckpoint(ckptFile)
         IN  /\ resumeArg' = r
             /\ IF r /\ checkpoint.found
                  THEN /\ resume' = TRUE
                       /\ resume_stage' = checkpoint.data.stage
                       /\ leads' = checkpoint.data.leads
                       /\ results' = checkpoint.data.results
                  ELSE /\ resume' = FALSE
                       /\ resume_stage' = 0
                       /\ leads' = <<>>
                       /\ results' = EmptyResults
    /\ ckptAtStart' = ckptFile
    /\ pc' = "preflight"
    /\ UNCHANGED << env, cache, disk, saving, conn, lastSaved, calls, executed,
                    written, runs >>

\* a controller that removes the checkpoint when the pre-flight check fails
PreflightClearing ==
    /\ pc = "preflight"
    /\ IF airtable
         THEN \E ok \in BOOLEAN :
                /\ calls' = calls \cup {"test_connection"}
                /\ conn' = IF ok THEN "ok" ELSE "denied"
                /\ IF ok
                     THEN pc' = "stage1" /\ UNCHANGED << results, ckptFile >>
                     ELSE /\ pc' = "returned"
                          /\ results' = ("error" :> "denied") @@ results
                          /\ ckptFile' = NoFile
         ELSE pc' = "stage1" /\ UNCHANGED << calls, conn, results, ckptFile >>
    /\ UNCHANGED << env, cache, cacheFile, remote, resume, resume_stage, leads,
                    saving, resumeArg, ckptAtStart, lastSaved, executed, written,
                    runs >>

\* a controller whose pre-flight return leaves the 'error' field out
PreflightNoErrorField ==
    /\ pc = "preflight"
    /\ IF airtable
         THEN \E ok \in BOOLEAN :
                /\ calls' = calls \cup {"test_connection"}
                /\ conn' = IF ok THEN "ok" ELSE "denied"
                /\ pc' = IF ok THEN "stage1" ELSE "returned"
         ELSE pc' = "stage1" /\ UNCHANGED << calls, conn >>
    /\ UNCHANGED << env, cache, disk, resume, resume_stage, leads, results, saving,
                    resumeArg, ckptAtStart, lastSaved, executed, written, runs >>

\* a controller that goes on to the search whatever test_connection says
PreflightIgnored ==
    /\ pc = "preflight"
    /\ IF airtable
         THEN \E ok \in BOOLEAN :
                /\ calls' = calls \cup {"test_connection"}
                /\ conn' = IF ok THEN "ok" ELSE "denied"
         ELSE UNCHANGED << calls, conn >>
    /\ pc' = "stage1"
    /\ UNCHANGED << env, cache, disk, resume, resume_stage, leads, results, saving,
                    resumeArg, ckptAtStart, lastSaved, executed, written, runs >>

\* lines 226-236: the pre-flight check of the sync collaborator
Preflight ==
    /\ pc = "preflight"
    /\ IF airtable
         THEN \E ok \in BOOLEAN :
                /\ calls' = calls \cup {"test_connection"}
                /\ conn' = IF ok THEN "ok" ELSE "denied"
                /\ IF ok
                     THEN pc' = "stage1" /\ UNCHANGED results
                     ELSE /\ pc' = "returned"
                          /\ results' = ("error" :> "denied") @@ results
         ELSE pc' = "stage1" /\ UNCHANGED << calls, conn, results >>
    /\ UNCHANGED << env, cache, disk, resume, resume_stage, leads, saving,
                    resumeArg, ckptAtStart, lastSaved, executed, written, runs >>

\* a stage whose `if resume_stage < i` is false is passed over
SkipStage ==
    /\ pc \in StagePcs
    /\ ~RunsStage(resume_stage, StageNo(pc))
    /\ pc' = StagePc(StageNo(pc) + 1)
    /\ UNCHANGED << env, cache, disk, locals, history >>

\* lines 238-267: search, cache filter, early returns
Stage1Scraping ==
    /\ pc = "stage1"
    /\ RunsStage(resume_stage, 1)
    /\ \E raw \in RawSearches :
         LET found == SearchAllCategories(raw)
             new == NewLeads(cache, found)
             next == NextAfterSearch(found, use_cache, new)
             skipped == Len(found) - Len(new)
             stats == IF found # <<>> /\ use_cache
                        THEN [leads_found |-> Len(found), new_leads |-> Len(new),
                              cached_skipped |-> skipped]
                        ELSE [leads_found |-> Len(found)]
             res == SetStage(results, "scraping", stats)
         IN  /\ calls' = calls \cup {"search"}
                         \cup (IF found # <<>> /\ use_cache THEN {"filter_new"} ELSE {})
             /\ executed' = Append(executed, 1)
             /\ cache' = IF found # <<>> /\ use_cache
                           THEN FilterNewCache(cache, found) ELSE cache
             /\ leads' = IF found # <<>> /\ use_cache THEN new ELSE found
             /\ results' = IF next = "duplicates"
                             THEN ("total_leads" :> 0) @@ res ELSE res
             /\ pc' = IF next = "save" THEN "save_open" ELSE "returned"
             /\ saving' = IF next = "save" THEN CheckpointIndex(1) ELSE saving
    /\ UNCHANGED << env, disk, resume, resume_stage, conn,
                    resumeArg, ckptAtStart, lastSaved, written, runs >>

\* lines 269-279
Stage2Websites ==
    /\ pc = "stage2"
    /\ RunsStage(resume_stage, 2)
    /\ \E rs \in [1..Len(leads) -> SiteResponses] :
         LET ls == AnalyzeLeads(leads, rs)
         IN  /\ leads' = ls
             /\ results' = SetStage(results, "website_analysis",
                   [sites_ativos |-> CountLeads(ls, LAMBDA l : l.site_ativo),
                    sites_https |-> CountLeads(ls, LAMBDA l : l.site_https)])
    /\ calls' = calls \cup {"analyze_leads"}
    /\ executed' = Append(executed, 2)
    /\ pc' = "save_open"
    /\ saving' = CheckpointIndex(2)
    /\ UNCHANGED << env, cache, disk, resume, resume_stage, conn,
                    resumeArg, ckptAtStart, lastSaved, written, runs >>

\* lines 281-304
Stage3Social ==
    /\ pc = "stage3"
    /\ RunsStage(resume_stage, 3)
    /\ \E ps \in [1..Len(leads) -> SocialPages] :
         LET ls == EnrichLeads(leads, ps)
         IN  /\ leads' = ls
             /\ results' = SetStage(results, "social_extraction",
                   [instagram |-> CountLeads(ls, LAMBDA l : l.instagram),
                    linkedin |-> CountLeads(ls, LAMBDA l : l.linkedin # "none"),
                    emails |-> CountLeads(ls, LAMBDA l : l.email),
                    telefones |-> CountLeads(ls, LAMBDA l : l.telefone)])
    /\ calls' = calls \cup {"enrich_leads"}
    /\ executed' = Append(executed, 3)
    /\ pc' = "save_open"
    /\ saving' = CheckpointIndex(3)
    /\ UNCHANGED << env, cache, disk, resume, resume_stage, conn,
                    resumeArg, ckptAtStart, lastSaved, written, runs >>

\* a controller that saves checkpoint 4 only when the enrichment ran
Stage4HunterNoCheckpoint ==
    /\ pc = "stage4"
    /\ RunsStage(resume_stage, 4)
    /\ IF hunter
         THEN /\ \E ds \in [1..Len(leads) -> HunterData], remaining \in 0..Len(leads) :
                   LET ls == HunterEnrichLeads(leads, ds, remaining)
                   IN  /\ leads' = ls
                       /\ results' = SetStage(results, "hunter_enrichment",
                             [emails_found |-> CountLeads(ls, LAMBDA l : l.email)])
              /\ calls' = calls \cup {"hunter_enrich_leads"}
              /\ pc' = "save_open"
              /\ saving' = CheckpointIndex(4)
         ELSE /\ pc' = "stage5"
              /\ UNCHANGED << leads, results, calls, saving >>
    /\ executed' = Append(executed, 4)
    /\ UNCHANGED << env, cache, disk, resume, resume_stage, conn,
                    resumeArg, ckptAtStart, lastSaved, written, runs >>

\* lines 306-316: the enrichment runs only with a hunter; the checkpoint
\* is written either way
Stage4Hunter ==
    /\ pc = "stage4"
    /\ RunsStage(resume_stage, 4)
    /\ IF hunter
         THEN /\ \E ds \in [1..Len(leads) -> HunterData], remaining \in 0..Len(leads) :
                   LET ls == HunterEnrichLeads(leads, ds, remaining)
                   IN  /\ leads' = ls
                       /\ results' = SetStage(results, "hunter_enrichment",
                             [emails_found |-> CountLeads(ls, LAMBDA l : l.email)])
              /\ calls' = calls \cup {"hunter_enrich_leads"}
         ELSE UNCHANGED << leads, results, calls >>
    /\ executed' = Append(executed, 4)
    /\ pc' = "save_open"
    /\ saving' = CheckpointIndex(4)
    /\ UNCHANGED << env, cache, disk, resume, resume_stage, conn,
                    resumeArg, ckptAtStart, lastSaved, written, runs >>

\* lines 318-328; the log line reads summary['score_medio'], which an empty
\* summary does not have
Stage5Scoring ==
    /\ pc = "stage5"
    /\ RunsStage(resume_stage, 5)
    /\ \E ls \in {ScoreLeads(SCORING_WEIGHTS, leads)} :
         \E summary \in {GetSummary(ls)} :
           /\ leads' = ls
           /\ results' = SetStage(results, "scoring", summary)
           /\ IF summary.empty
                THEN pc' = "failed" /\ UNCHANGED saving
                ELSE pc' = "save_open" /\ saving' = CheckpointIndex(5)
    /\ calls' = calls \cup {"score_leads"}
    /\ executed' = Append(executed, 5)
    /\ UNCHANGED << env, cache, disk, resume, resume_stage, conn,
                    resumeArg, ckptAtStart, lastSaved, written, runs >>

\* _save_checkpoint, line 138: open(path, "w") creates or truncates the file
SaveCheckpointOpen ==
    /\ pc = "save_open"
    /\ ckptFile' = PartialFile
    /\ written' = Append(written, saving)
    /\ pc' = "save_write"
    /\ UNCHANGED << env, cache, cacheFile, remote, locals, resumeArg, ckptAtStart,
                    lastSaved, calls, executed, runs >>

\* _save_checkpoint, line 139: json.dump writes the record
SaveCheckpointWrite ==
    /\ pc = "save_write"
    /\ ckptFile' = [state |-> "full", data |-> CheckpointRecord(saving, leads, results)]
    /\ lastSaved' = ckptFile'
    /\ pc' = StagePc(executed[Len(executed)] + 1)
    /\ saving' = 0
    /\ UNCHANGED << env, cache, cacheFile, remote, resume, resume_stage, leads,
                    results, conn, resumeArg, ckptAtStart, calls, executed,
                    written, runs >>

\* lines 330-338: the sync stage; it writes no checkpoint
Stage6Airtable ==
    /\ pc = "stage6"
    /\ IF airtable
         THEN /\ \E os \in [1..Len(leads) -> RunSyncOutcomes] :
                   LET out == SyncLeads(leads, os, remote)
                   IN  /\ leads' = out.leads
                       /\ remote' = out.remote
                       /\ results' = SetStage(results, "airtable_sync",
                             [total |-> Len(leads), created |-> out.created,
                              updated |-> out.updated, errors |-> out.errors])
              /\ calls' = calls \cup {"sync_leads"}
              /\ executed' = Append(executed, 6)
         ELSE UNCHANGED << leads, remote, results, calls, executed >>
    /\ pc' = "cache"
    /\ UNCHANGED << env, cache, cacheFile, ckptFile, resume, resume_stage, saving,
                    conn, resumeArg, ckptAtStart, lastSaved, written, runs >>

\* lines 340-360: the cache commit; add_many ends in _save_cache
CacheCommit ==
    /\ pc = "cache"
    /\ LET toCache == LeadsToCache(leads, airtable)
           adds == use_cache /\ (airtable => toCache # <<>>)
       IN  IF adds
             THEN /\ cache' = AddMany(cache, toCache)
                  /\ calls' = calls \cup {"add_many"}
                  /\ pc' = "cache_open"
             ELSE /\ pc' = "export"
                  /\ UNCHANGED << cache, calls >>
    /\ UNCHANGED << env, disk, locals, resumeArg, ckptAtStart, lastSaved,
                    executed, written, runs >>

\* _save_cache, line 59: open(cache_file, "w") truncates the file
CacheSaveOpen ==
    /\ pc = "cache_open"
    /\ cacheFile' = PartialCacheFile
    /\ pc' = "cache_write"
    /\ UNCHANGED << env, cache, ckptFile, remote, locals, history >>

\* _save_cache, line 60: json.dump writes the whole cache
CacheSaveWrite ==
    /\ pc = "cache_write"
    /\ cacheFile' = [state |-> "full", data |-> cache]
    /\ pc' = "export"
    /\ UNCHANGED << env, cache, ckptFile, remote, locals, history >>

\* _save_cache, lines 61-62: a failing open or write is logged and swallowed
CacheSaveFails ==
    /\ pc \in {"cache_open", "cache_write"}
    /\ pc' = "export"
    /\ UNCHANGED << env, cache, disk, locals, history >>

\* lines 362-368
ExportExcel ==
    /\ pc = "export"
    /\ results' = ("excel_file" :> TRUE) @@ results
    /\ calls' = calls \cup {"export_to_excel"}
    /\ pc' = "finish"
    /\ UNCHANGED << env, cache, disk, resume, resume_stage, leads, saving, conn,
                    resumeArg, ckptAtStart, lastSaved, executed, written, runs >>

\* a controller that ends a full run without removing the checkpoint
FinalizeKeepsCheckpoint ==
    /\ pc = "finish"
    /\ results' = ("total_leads" :> Len(leads)) @@ ("duration_seconds" :> TRUE)
                  @@ ("finished_at" :> TRUE) @@ results
    /\ pc' = "done"
    /\ UNCHANGED << env, cache, disk, resume, resume_stage, leads, saving, conn,
                    resumeArg, ckptAtStart, lastSaved, calls, executed, written,
                    runs >>

\* lines 370-382: the full summary; _clear_checkpoint unlinks the file
Finalize ==
    /\ pc = "finish"
    /\ results' = ("total_leads" :> Len(leads)) @@ ("duration_seconds" :> TRUE)
                  @@ ("finished_at" :> TRUE) @@ results
    /\ ckptFile' = NoFile
    /\ lastSaved' = NoFile
    /\ calls' = calls \cup {"clear_checkpoint"}
    /\ pc' = "done"
    /\ UNCHANGED << env, cache, cacheFile, remote, resume, resume_stage, leads,
                    saving, conn, resumeArg, ckptAtStart, executed, written, runs >>

\* the first n leads as the stage left them, the others untouched
PrefixApply(old, new, n) ==
    [i \in 1..Len(old) |-> IF i <= n THEN new[i] ELSE old[i]]

\* what the leads in memory may look like when stage i raises part-way
PartialStage(i, ls) ==
    IF i = 2 THEN {AnalyzeLeads(ls, rs) : rs \in [1..Len(ls) -> SiteResponses]}
    ELSE IF i = 3 THEN {EnrichLeads(ls, ps) : ps \in [1..Len(ls) -> SocialPages]}
    ELSE IF i = 4 THEN {HunterEnrichLeads(ls, ds, Len(ls)) : ds \in [1..Len(ls) -> HunterData]}
    ELSE IF i = 5 THEN {[j \in 1..Len(ls) |-> CalculateScore(SCORING_WEIGHTS, ls[j])]}
    ELSE {ls}

StageCall(i) ==
    IF i = 1 THEN "search" ELSE IF i = 2 THEN "analyze_leads"
    ELSE IF i = 3 THEN "enrich_leads" ELSE IF i = 4 THEN "hunter_enrich_leads"
    ELSE "score_leads"

\* a controller that removes the checkpoint when a stage raises
StageRaisesClearing ==
    /\ pc \in StagePcs
    /\ RunsStage(resume_stage, StageNo(pc))
    /\ pc = "stage4" => hunter
    /\ ckptFile' = NoFile
    /\ calls' = calls \cup {StageCall(StageNo(pc))}
    /\ executed' = Append(executed, StageNo(pc))
    /\ pc' = "failed"
    /\ UNCHANGED << env, cache, cacheFile, remote, locals, resumeArg, ckptAtStart,
                    lastSaved, written, runs >>

\* a stage raises: the leads in memory are mutated in place up to some
\* lead, nothing is saved, and the error leaves run()
StageRaises ==
    /\ pc \in StagePcs
    /\ RunsStage(resume_stage, StageNo(pc))
    /\ pc = "stage4" => hunter
    /\ \E new \in PartialStage(StageNo(pc), leads), n \in 0..Len(leads) :
         leads' = PrefixApply(leads, new, n)
    /\ calls' = calls \cup {StageCall(StageNo(pc))}
    /\ executed' = Append(executed, StageNo(pc))
    /\ pc' = "failed"
    /\ UNCHANGED << env, cache, disk, resume, resume_stage, results, saving, conn,
                    resumeArg, ckptAtStart, lastSaved, written, runs >>

\* export_to_excel raises (the workbook cannot be written)
ExportRaises ==
    /\ pc = "export"
    /\ calls' = calls \cup {"export_to_excel"}
    /\ pc' = "failed"
    /\ UNCHANGED << env, cache, disk, locals, resumeArg, ckptAtStart, lastSaved,
                    executed, written, runs >>

\* the process dies (kill, power loss, interrupt) wherever it is: its memory
\* is gone, the files and the remote table stay as they are
Terminate ==
    /\ pc \in Running
    /\ pc' = "killed"
    /\ cache' = EmptyCache
    /\ resume' = FALSE
    /\ resume_stage' = 0
    /\ leads' = <<>>
    /\ results' = EmptyResults
    /\ saving' = 0
    /\ conn' = "none"
    /\ resumeArg' = FALSE
    /\ ckptAtStart' = NoFile
    /\ calls' = {}
    /\ executed' = <<>>
    /\ written' = <<>>
    /\ UNCHANGED << env, disk, lastSaved, runs >>

Next ==
    \/ Construct
    \/ RunBegin
    \/ Preflight
    \/ SkipStage
    \/ Stage1Scraping
    \/ Stage2Websites
    \/ Stage3Social
    \/ Stage4Hunter
    \/ Stage5Scoring
    \/ SaveCheckpointOpen
    \/ SaveCheckpointWrite
    \/ Stage6Airtable
    \/ CacheCommit
    \/ CacheSaveOpen
    \/ CacheSaveWrite
    \/ CacheSaveFails
    \/ ExportExcel
    \/ Finalize
    \/ StageRaises
    \/ ExportRaises
    \/ Terminate

Spec == Init /\ [][Next]_vars

\* sync is asked for and the sync collaborator cannot be constructed
DegradedInit == Start(FALSE) /\ sync_to_airtable

DegradedSpec == DegradedInit /\ [][Next]_vars

TypeOK ==
    /\ pc \in Running \cup Ended \cup {"off"}
    /\ resume_stage \in 0..5
    /\ runs \in 0..MaxRuns

(***************************************************************************)
(* A caller that calls run(resume=True) again after every run that did not *)
(* end normally.  Stages, the export, the connectivity check and the       *)
(* process fail MaxFailures times at most, and the process is not killed   *)
(* while the checkpoint file is being written.                             *)
(***************************************************************************)
\* failures in one behaviour, at most
MaxFailures == 2

\* the run raised, was killed, or was aborted by the connectivity check
RunFailed ==
    \/ pc \in {"failed", "killed"}
    \/ pc = "returned" /\ "error" \in DOMAIN results

\* every process but the first follows a failure
MayFail == runs <= MaxFailures

RetryConstruct ==
    /\ pc = "off" \/ RunFailed
    /\ runs' = runs + 1
    /\ cache' = IF use_cache THEN LoadCache(cacheFile) ELSE EmptyCache
    /\ pc' = "ready"
    /\ resume' = FALSE
    /\ resume_stage' = 0
    /\ leads' = <<>>
    /\ results' = EmptyResults
    /\ saving' = 0
    /\ conn' = "none"
    /\ resumeArg' = FALSE
    /\ ckptAtStart' = NoFile
    /\ calls' = {}
    /\ executed' = <<>>
    /\ written' = <<>>
    /\ UNCHANGED << env, disk, lastSaved >>

RetryRunBegin == RunBegin /\ resumeArg'

RetryPreflight == Preflight /\ (pc' = "returned" => MayFail)

RetryStageRaises == MayFail /\ StageRaises

RetryExportRaises == MayFail /\ ExportRaises

RetryTerminate == MayFail /\ pc # "save_write" /\ Terminate

\* the steps of the caller and of a run that does not fail
RetryProgress ==
    \/ RetryConstruct
    \/ RetryRunBegin
    \/ RetryPreflight
    \/ SkipStage
    \/ Stage1Scraping
    \/ Stage2Websites
    \/ Stage3Social
    \/ Stage4Hunter
    \/ Stage5Scoring
    \/ SaveCheckpointOpen
    \/ SaveCheckpointWrite
    \/ Stage6Airtable
    \/ CacheCommit
    \/ CacheSaveOpen
    \/ CacheSaveWrite
    \/ CacheSaveFails
    \/ ExportExcel
    \/ Finalize

RetryNext ==
    \/ RetryProgress
    \/ RetryStageRaises
    \/ RetryExportRaises
    \/ RetryTerminate

\* the interpreter goes on with the statement it is at, and the caller does
\* call again
ResumeSpec == Init /\ [][RetryNext]_vars /\ WF_vars(RetryProgress)

(***************************************************************************)
(* Library operations called on their own, outside run(): each call draws  *)
(* its input from a bounded set and records input and result.              *)
(***************************************************************************)
\* calls in one behaviour
MaxCalls == 2

pipeline == << hunter, sync_to_airtable, credentials, airtable, use_cache, cache, cacheFile, ckptFile, pc,
               locals, history >>

\* leads handed to a library operation: the catalogue's, as found
ArgLeads == {Catalog[i] : i \in 1..Len(Catalog)}

ArgBatches == UNION {[1..n -> ArgLeads] : n \in 0..MaxFound}

\* AirtableSync.sync_leads(leads) against the remote table as it stands
SyncLeadsCall ==
    /\ ncalls < MaxCalls
    /\ \E batch \in ArgBatches :
         \E os \in [1..Len(batch) -> SyncOutcomes] :
            LET out == SyncLeads(batch, os, remote)
            IN  /\ arg' = [leads |-> batch, outcomes |-> os, remote |-> remote]
                /\ ret' = out
                /\ remote' = out.remote
    /\ ncalls' = ncalls + 1
    /\ UNCHANGED pipeline

SyncInit == Init /\ ~hunter /\ airtable /\ ~use_cache

SyncNext == SyncLeadsCall

SyncSpec == SyncInit /\ [][SyncNext]_vars

(***************************************************************************)
(* calculate_score on its own: the input is drawn in the initial state and *)
(* the operation is applied to it once.                                    *)
(***************************************************************************)
\* every combination of the fields calculate_score reads; instagram posts
\* 10 and 45 days old, ratings 3.6 and 4.5, 25 and 60 reviews
ScoreLeadsIn ==
    { [Lead(<<"a">>, c) EXCEPT
          !.telefone = f[1], !.email = f[2], !.site_https = f[3],
          !.site_ativo = f[4], !.instagram = f[5], !.linkedin_company_id = f[6],
          !.hours = f[7],
          !.site = st, !.instagram_last_post = lp, !.linkedin = li,
          !.rating = ra, !.num_reviews = nr] :
        c \in {"clinica medica", "restaurante"},
        f \in [1..7 -> BOOLEAN],
        st \in {"none", "web"}, lp \in {-1, 10, 45},
        li \in {"none", "personal", "company"},
        ra \in {0, 36, 45}, nr \in {0, 25, 60} }

\* weights tables: none given (the default table), one with two heavy
\* entries and the other keys missing, one with every weight negative
WeightTables ==
    { <<>>,
      [tem_telefone |-> 60, tem_email |-> 60],
      [k \in DOMAIN SCORING_WEIGHTS |-> -7] }

CalculateScoreCall ==
    /\ ncalls = 0
    /\ "lead" \in DOMAIN arg
    /\ ret' = CalculateScore(LeadScorer(arg.weights), arg.lead)
    /\ ncalls' = 1
    /\ UNCHANGED << pipeline, remote, arg >>

ScoreInit ==
    /\ StartPipeline(TRUE) /\ ~hunter /\ ~sync_to_airtable /\ ~use_cache
    /\ arg \in [lead : ScoreLeadsIn, weights : WeightTables]
    /\ ret = <<>>
    /\ ncalls = 0

ScoreNext == CalculateScoreCall

ScoreSpec == ScoreInit /\ [][ScoreNext]_vars

(***************************************************************************)
(* _score_digital_presence on its own.                                     *)
(***************************************************************************)
\* leads over the social profiles: a last post of unknown age, 10, 30, 31
\* and 45 days old
DigitalLeadsIn ==
    { [Lead(<<"a">>, "restaurante") EXCEPT
          !.instagram = ig, !.instagram_last_post = lp, !.linkedin = li,
          !.linkedin_company_id = ci] :
        ig \in BOOLEAN, lp \in {-1, 10, 30, 31, 45},
        li \in {"none", "personal", "company"}, ci \in BOOLEAN }

DigitalWeightTables == WeightTables \cup { [instagram_ativo |-> 9] }

ScoreDigitalPresenceCall ==
    /\ ncalls = 0
    /\ "lead" \in DOMAIN arg
    /\ ret' = ScoreDigitalPresence(LeadScorer(arg.weights), arg.lead)
    /\ ncalls' = 1
    /\ UNCHANGED << pipeline, remote, arg >>

DigitalInit ==
    /\ StartPipeline(TRUE) /\ ~hunter /\ ~sync_to_airtable /\ ~use_cache
    /\ arg \in [lead : DigitalLeadsIn, weights : DigitalWeightTables]
    /\ ret = <<>>
    /\ ncalls = 0

DigitalNext == ScoreDigitalPresenceCall

DigitalSpec == DigitalInit /\ [][DigitalNext]_vars

(***************************************************************************)
(* calculate_score called twice: on a lead and then on the same lead with  *)
(* another category, or on the same lead some days later.                  *)
(***************************************************************************)
\* days between the two calls, at most
MaxElapsed == 25

PairCategories == {"clinica medica", "Clinica Medica", "restaurante"}

\* instagram posts 10 and 45 days old on day 0
PairLeadsIn ==
    { [Lead(<<"a">>, c) EXCEPT
          !.telefone = f[1], !.instagram = f[2], !.site_https = f[3],
          !.site_ativo = f[3],
          !.site = (IF f[3] THEN "web" ELSE "none"),
          !.linkedin = (IF f[4] THEN "company" ELSE "none"),
          !.rating = (IF f[5] THEN 45 ELSE 0),
          !.num_reviews = (IF f[6] THEN 60 ELSE 0),
          !.instagram_last_post = lp] :
        c \in PairCategories, f \in [1..6 -> BOOLEAN], lp \in {-1, 10, 45} }

\* the second call: the same lead under another category, at once
CalculateScoreTwin ==
    /\ ncalls = 1
    /\ "lead" \in DOMAIN arg
    /\ \E c \in PairCategories \ {arg.lead.categoria} :
         ret' = [ first |-> ret,
                  second |-> CalculateScore(LeadScorer(arg.weights),
                                            [arg.lead EXCEPT !.categoria = c]),
                  elapsed |-> 0 ]
    /\ ncalls' = 2
    /\ UNCHANGED << pipeline, remote, arg >>

\* the second call: the same lead, some days later
CalculateScoreLater ==
    /\ ncalls = 1
    /\ "lead" \in DOMAIN arg
    /\ \E d \in 0..MaxElapsed :
         ret' = [ first |-> ret,
                  second |-> CalculateScoreAt(LeadScorer(arg.weights), arg.lead, d),
                  elapsed |-> d ]
    /\ ncalls' = 2
    /\ UNCHANGED << pipeline, remote, arg >>

PairInit ==
    /\ StartPipeline(TRUE) /\ ~hunter /\ ~sync_to_airtable /\ ~use_cache
    /\ arg \in [lead : PairLeadsIn, weights : WeightTables]
    /\ ret = <<>>
    /\ ncalls = 0

PairNext == CalculateScoreCall \/ CalculateScoreTwin \/ CalculateScoreLater

PairSpec == PairInit /\ [][PairNext]_vars

(***************************************************************************)
(* score_leads and get_summary on their own.                               *)
(***************************************************************************)
\* leads in one batch, at most
MaxBatch == 3

\* leads of scores 0, 10 (three of them), 40, 60 and 100 under the default
\* table, and one that carries the score of an earlier scoring
BatchLeads ==
    LET web(l) == [l EXCEPT !.telefone = TRUE, !.email = TRUE, !.site = "web",
                            !.site_https = TRUE, !.site_ativo = TRUE]
        rated(l) == [l EXCEPT !.rating = 45, !.num_reviews = 60]
        social(l) == [l EXCEPT !.instagram = TRUE, !.instagram_last_post = 10,
                               !.linkedin = "company", !.hours = TRUE]
    IN  { Lead(<<"a">>, "restaurante"),
          [Lead(<<"a">>, "restaurante") EXCEPT !.telefone = TRUE],
          [Lead(<<"a">>, "restaurante") EXCEPT !.email = TRUE],
          Lead(<<"a">>, "clinica medica"),
          web(Lead(<<"a">>, "restaurante")),
          rated(web(Lead(<<"a">>, "restaurante"))),
          social(rated(web(Lead(<<"a">>, "clinica medica")))),
          [Lead(<<"a">>, "restaurante") EXCEPT !.telefone = TRUE, !.score = 70,
                                               !.classificacao = "warm",
                                               !.score_calculated = TRUE] }

Batches == UNION {[1..n -> BatchLeads] : n \in 0..MaxBatch}

ScoreLeadsCall ==
    /\ ncalls = 0
    /\ "batch" \in DOMAIN arg
    /\ ret' = [scored |-> ScoreLeadsOutcomes(LeadScorer(arg.weights), arg.batch,
                                             arg.outcomes)]
    /\ ncalls' = 1
    /\ UNCHANGED << pipeline, remote, arg >>

\* get_summary on the batch as given or as score_leads returned it
GetSummaryCall ==
    /\ ncalls \in {0, 1}
    /\ "batch" \in DOMAIN arg
    /\ LET input == IF ncalls = 0 THEN arg.batch ELSE ret.scored
       IN  ret' = [leads |-> input, summary |-> GetSummary(input)]
    /\ ncalls' = 2
    /\ UNCHANGED << pipeline, remote, arg >>

BatchInit ==
    /\ StartPipeline(TRUE) /\ ~hunter /\ ~sync_to_airtable /\ ~use_cache
    /\ \E b \in Batches :
         arg \in [batch : {b}, outcomes : [1..Len(b) -> ScoreOutcomes],
                  weights : WeightTables]
    /\ ret = <<>>
    /\ ncalls = 0

\* score_leads on the list an earlier score_leads returned, by the same
\* scorer; no lead makes either call raise
ScoreLeadsAgain ==
    /\ ncalls = 1
    /\ "batch" \in DOMAIN arg
    /\ \A i \in 1..Len(arg.batch) : arg.outcomes[i] = "ok"
    /\ ret' = [once |-> ret.scored,
               twice |-> ScoreLeads(LeadScorer(arg.weights), ret.scored)]
    /\ ncalls' = 2
    /\ UNCHANGED << pipeline, remote, arg >>

BatchNext == ScoreLeadsCall \/ GetSummaryCall \/ ScoreLeadsAgain

BatchSpec == BatchInit /\ [][BatchNext]_vars

(***************************************************************************)
(* The cache on its own: a process that holds a LeadCache calls its        *)
(* operations one after the other; it may die at any point, and the next   *)
(* process opens the file again.  The clock is the day of the last add.    *)
(***************************************************************************)
\* the last day of the clock
MaxDay == 2

\* the largest `days` handed to clear_old
MaxAge == 1

\* a lead, the same lead written with other letter case and outer blanks,
\* and the same lead with a blank inside the city's name
CacheLeads ==
    { Lead(<<"a">>, "restaurante"),
      [Lead(<<" ", "A">>, "restaurante") EXCEPT !.cidade = <<"b", "h", " ">>],
      [Lead(<<"a">>, "restaurante") EXCEPT !.cidade = <<"B", " ", "H">>] }

\* the cache file the first process finds: none, the one a process that
\* added the first lead on day 0 left, one that is not valid JSON, and one
\* that holds the JSON object {}
FoundCacheFiles ==
    { NoCacheFile,
      [ state |-> "full",
        data |-> CacheAddAt(EmptyCache, Lead(<<"a">>, "restaurante"), 0) ],
      PartialCacheFile,
      [ state |-> "full", data |-> NoKeysCache ] }

\* batches that hold a lead once
CacheBatches ==
    UNION { {b \in [1..n -> CacheLeads] : \A i, j \in 1..n : b[i] = b[j] => i = j} :
            n \in 0..MaxFound }

\* what the cache calls leave alone
others == << hunter, sync_to_airtable, credentials, airtable, use_cache, ckptFile,
             remote, locals, history >>

\* the day of the next call that reads the clock to stamp an entry
Days == {d \in 0..MaxDay : d >= arg.now /\ d <= arg.now + 1}

CacheIdle == pc = "off" /\ ncalls < MaxCalls

\* the add operations since the last clear that a cache just loaded stands
\* for: the counter its file recorded
AddsBehind(c) == IF HasKeys(c) THEN c.total_processed ELSE 0

\* a call that raises KeyError on self._cache["leads"] or ["stats"]; nothing
\* was written before the failing subscript
Raise(call) ==
    /\ arg' = [op |-> "raised", call |-> call, now |-> arg.now, before |-> cache,
               adds |-> arg.adds, failed |-> FALSE]
    /\ ret' = <<>>
    /\ ncalls' = ncalls + 1
    /\ UNCHANGED << cache, cacheFile, pc, others >>

\* add(lead) on a cache without keys
AddRaises == CacheIdle /\ ~HasKeys(cache) /\ Raise("add")

\* add_many(leads) of a non-empty batch on a cache without keys
AddManyRaises == CacheIdle /\ ~HasKeys(cache) /\ Raise("add_many")

\* exists(lead) on a cache without keys
ExistsRaises == CacheIdle /\ ~HasKeys(cache) /\ Raise("exists")

\* filter_new(leads) on a cache without keys: exists raises, or line 147
FilterNewRaises == CacheIdle /\ ~HasKeys(cache) /\ Raise("filter_new")

\* clear_old(days) on a cache without keys
ClearOldRaises == CacheIdle /\ ~HasKeys(cache) /\ Raise("clear_old")

\* add(lead), up to the call of _save_cache
AddCall ==
    /\ CacheIdle
    /\ HasKeys(cache)
    /\ \E lead \in CacheLeads, d \in Days :
         /\ cache' = CacheAddAt(cache, lead, d)
         /\ arg' = [op |-> "add", now |-> d, lead |-> lead, before |-> cache,
                   adds |-> arg.adds + 1,
                    failed |-> FALSE]
    /\ ret' = <<>>
    /\ pc' = "lib_open"
    /\ ncalls' = ncalls + 1
    /\ UNCHANGED << cacheFile, others >>

\* add_many(leads), up to the call of _save_cache
AddManyCall ==
    /\ CacheIdle
    /\ HasKeys(cache)
    /\ \E batch \in CacheBatches, d \in Days :
         /\ cache' = AddManyAt(cache, batch, d)
         /\ arg' = [op |-> "add_many", now |-> d, batch |-> batch, before |-> cache,
                   adds |-> arg.adds + Len(batch),
                    failed |-> FALSE]
    /\ ret' = <<>>
    /\ pc' = "lib_open"
    /\ ncalls' = ncalls + 1
    /\ UNCHANGED << cacheFile, others >>

\* exists(lead)
ExistsCall ==
    /\ CacheIdle
    /\ HasKeys(cache)
    /\ \E lead \in CacheLeads :
         /\ ret' = Exists(cache, lead)
         /\ arg' = [op |-> "exists", now |-> arg.now, lead |-> lead, before |-> cache,
                   adds |-> arg.adds,
                    failed |-> FALSE]
    /\ ncalls' = ncalls + 1
    /\ UNCHANGED << cache, cacheFile, pc, others >>

\* filter_new(leads): _save_cache is not called
FilterNewCall ==
    /\ CacheIdle
    /\ HasKeys(cache)
    /\ \E batch \in CacheBatches :
         /\ ret' = NewLeads(cache, batch)
         /\ cache' = FilterNewCache(cache, batch)
         /\ arg' = [op |-> "filter_new", now |-> arg.now, batch |-> batch, before |-> cache,
                   adds |-> arg.adds,
                    failed |-> FALSE]
    /\ ncalls' = ncalls + 1
    /\ UNCHANGED << cacheFile, pc, others >>

\* clear(), up to the call of _save_cache
ClearCall ==
    /\ CacheIdle
    /\ arg' = [op |-> "clear", now |-> arg.now, before |-> cache, adds |-> 0,
               failed |-> FALSE]
    /\ cache' = ClearCache
    /\ ret' = <<>>
    /\ pc' = "lib_open"
    /\ ncalls' = ncalls + 1
    /\ UNCHANGED << cacheFile, others >>

\* clear_old(days): _save_cache is called when an entry was removed
ClearOldCall ==
    /\ CacheIdle
    /\ HasKeys(cache)
    /\ \E days \in 0..MaxAge :
         LET out == ClearOld(cache, arg.now, days)
         IN  /\ cache' = out.cache
             /\ ret' = out.removed
             /\ arg' = [op |-> "clear_old", now |-> arg.now, days |-> days, before |-> cache,
                       adds |-> arg.adds,
                        failed |-> FALSE]
             /\ pc' = IF out.removed > 0 THEN "lib_open" ELSE "off"
    /\ ncalls' = ncalls + 1
    /\ UNCHANGED << cacheFile, others >>

\* _save_cache, line 59: open(cache_file, "w") truncates the file
SaveOpen ==
    /\ pc = "lib_open"
    /\ cacheFile' = PartialCacheFile
    /\ pc' = "lib_write"
    /\ UNCHANGED << cache, arg, ret, ncalls, others >>

\* _save_cache, line 60: json.dump writes the whole cache; the call returns
SaveWrite ==
    /\ pc = "lib_write"
    /\ cacheFile' = [state |-> "full", data |-> cache]
    /\ pc' = "off"
    /\ UNCHANGED << cache, arg, ret, ncalls, others >>

\* _save_cache, lines 61-62: a failing open or write is logged and
\* swallowed; the call returns
SaveFails ==
    /\ pc \in {"lib_open", "lib_write"}
    /\ arg' = [arg EXCEPT !.failed = TRUE]
    /\ pc' = "off"
    /\ UNCHANGED << cache, cacheFile, ret, ncalls, others >>

\* the process dies; the next one constructs LeadCache, which loads the file
Reopen ==
    /\ arg.op # "open"
    /\ cache' = LoadCache(cacheFile)
    /\ arg' = [op |-> "open", now |-> arg.now, died |-> pc, before |-> cache,
               adds |-> AddsBehind(LoadCache(cacheFile)), failed |-> FALSE]
    /\ ret' = <<>>
    /\ pc' = "off"
    /\ UNCHANGED << cacheFile, ncalls, others >>

CacheInit ==
    /\ hunter = FALSE /\ sync_to_airtable = FALSE /\ credentials = TRUE
    /\ airtable = FALSE /\ use_cache = TRUE
    /\ cacheFile \in FoundCacheFiles
    /\ cache = LoadCache(cacheFile)
    /\ ckptFile = NoFile /\ remote = <<>> /\ pc = "off"
    /\ resume = FALSE /\ resume_stage = 0 /\ leads = <<>>
    /\ results = EmptyResults /\ saving = 0 /\ conn = "none"
    /\ resumeArg = FALSE /\ ckptAtStart = NoFile /\ lastSaved = NoFile
    /\ calls = {} /\ executed = <<>> /\ written = <<>> /\ runs = 0
    /\ arg = [op |-> "open", now |-> 0, died |-> "off", before |-> EmptyCache,
              adds |-> AddsBehind(cache), failed |-> FALSE]
    /\ ret = <<>>
    /\ ncalls = 0

CacheNext ==
    \/ AddCall \/ AddManyCall \/ ExistsCall \/ FilterNewCall \/ ClearCall
    \/ ClearOldCall \/ SaveOpen \/ SaveWrite \/ SaveFails \/ Reopen
    \/ AddRaises \/ AddManyRaises \/ ExistsRaises \/ FilterNewRaises
    \/ ClearOldRaises

CacheSpec == CacheInit /\ [][CacheNext]_vars

(***************************************************************************)
(* _classify_lead on its own.                                              *)
(***************************************************************************)
\* how far below 0 and above 100 the scores handed to _classify_lead go
ScoreMargin == 5

ClassifyLeadCall ==
    /\ ncalls = 0
    /\ "score" \in DOMAIN arg
    /\ ret' = ClassifyLead(arg.score)
    /\ ncalls' = 1
    /\ UNCHANGED << pipeline, remote, arg >>

ClassifyInit ==
    /\ StartPipeline(TRUE) /\ ~hunter /\ ~sync_to_airtable /\ ~use_cache
    /\ arg \in [score : (0 - ScoreMargin)..(100 + ScoreMargin)]
    /\ ret = <<>>
    /\ ncalls = 0

ClassifyNext == ClassifyLeadCall

ClassifySpec == ClassifyInit /\ [][ClassifyNext]_vars

(***************************************************************************)
(* The two _fetch_page methods under tenacity's retry decorator.           *)
(***************************************************************************)
MAX_RETRIES == 3

\* what one GET can do: answer 200, answer another status, time out, or
\* fail to connect
FetchOutcomes == {"ok", "http_error", "timeout", "connection"}

Fetchers == {"scraper", "social"}

\* the body of _fetch_page on one GET: the scraper's raises on anything but
\* a 2xx answer, the social extractor's catches everything and returns None
FetchBody(fetcher, o) ==
    IF fetcher = "scraper"
    THEN IF o = "ok" THEN "text" ELSE "raise"
    ELSE IF o = "ok" THEN "soup" ELSE "None"

\* wait_exponential(multiplier=1, min, max) after the given attempt
WaitExponential(fetcher, attempt) ==
    LET mn == IF fetcher = "scraper" THEN 2 ELSE 1
        mx == IF fetcher = "scraper" THEN 10 ELSE 5
    IN  Min2(mx, Max2(mn, 2 ^ (attempt - 1)))

\* a caller calls _fetch_page(url)
FetchBegin ==
    /\ arg.phase \in {"idle", "done"}
    /\ ncalls < MaxCalls
    /\ \E f \in Fetchers :
          arg' = [fetcher |-> f, attempts |-> <<>>, waits |-> <<>>,
                  phase |-> "attempt"]
    /\ ret' = <<>>
    /\ ncalls' = ncalls + 1
    /\ UNCHANGED << pipeline, remote >>

\* the decorator runs the body once: a returned value ends the call, an
\* exception is retried unless stop_after_attempt(MAX_RETRIES) says stop
FetchAttempt ==
    /\ arg.phase = "attempt"
    /\ \E o \in FetchOutcomes :
          LET attempts == Append(arg.attempts, o)
              out == FetchBody(arg.fetcher, o)
          IN  IF out # "raise"
              THEN /\ arg' = [arg EXCEPT !.attempts = attempts, !.phase = "done"]
                   /\ ret' = out
              ELSE IF Len(attempts) >= MAX_RETRIES
              THEN /\ arg' = [arg EXCEPT !.attempts = attempts, !.phase = "done"]
                   /\ ret' = "RetryError"
              ELSE /\ arg' = [arg EXCEPT !.attempts = attempts, !.phase = "wait"]
                   /\ ret' = ret
    /\ UNCHANGED << pipeline, remote, ncalls >>

\* the decorator sleeps before the next attempt
FetchBackoff ==
    /\ arg.phase = "wait"
    /\ arg' = [arg EXCEPT
                 !.waits = Append(@, WaitExponential(arg.fetcher, Len(arg.attempts))),
                 !.phase = "attempt"]
    /\ UNCHANGED << pipeline, remote, ret, ncalls >>

FetchInit ==
    /\ StartPipeline(TRUE) /\ ~hunter /\ ~sync_to_airtable /\ ~use_cache
    /\ arg = [fetcher |-> "scraper", attempts |-> <<>>, waits |-> <<>>,
              phase |-> "idle"]
    /\ ret = <<>>
    /\ ncalls = 0

FetchNext == FetchBegin \/ FetchAttempt \/ FetchBackoff

FetchSpec == FetchInit /\ [][FetchNext]_vars

(***************************************************************************)
(* analyze_leads and then enrich_leads on one lead, as stages 2 and 3 call *)
(* them.                                                                   *)
(***************************************************************************)
\* leads as the search hands them over: without a site, with a web site,
\* with an Instagram address as site
FoundLeads ==
    { [Lead(<<"a">>, "restaurante") EXCEPT
          !.site = st, !.email = em, !.telefone = te, !.instagram = ig] :
        st \in {"none", "web", "insta"}, em \in BOOLEAN, te \in BOOLEAN,
        ig \in BOOLEAN }

\* what the pages of one site may yield: also nothing at all, when every
\* _fetch_page returned None
ExtractPages ==
    SocialPages \cup
      { [kind |-> "page", instagram |-> FALSE, linkedin |-> "none", email |-> FALSE] }

AnalyzeLeadsCall ==
    /\ ncalls = 0
    /\ "found" \in DOMAIN arg
    /\ \E r \in SiteResponses :
          ret' = [analyzed |-> AnalyzeLeads(arg.found, << r >>)]
    /\ ncalls' = 1
    /\ UNCHANGED << pipeline, remote, arg >>

EnrichLeadsCall ==
    /\ ncalls = 1
    /\ "analyzed" \in DOMAIN ret
    /\ \E p \in ExtractPages :
          ret' = [analyzed |-> ret.analyzed, page |-> p,
                  enriched |-> EnrichLeads(ret.analyzed, << p >>)]
    /\ ncalls' = 2
    /\ UNCHANGED << pipeline, remote, arg >>

EnrichInit ==
    /\ StartPipeline(TRUE) /\ ~hunter /\ ~sync_to_airtable /\ ~use_cache
    /\ \E l \in FoundLeads : arg = [found |-> << l >>]
    /\ ret = <<>>
    /\ ncalls = 0

EnrichNext == AnalyzeLeadsCall \/ EnrichLeadsCall

EnrichSpec == EnrichInit /\ [][EnrichNext]_vars

(***************************************************************************)
(* HunterEnricher.enrich_leads on its own.                                 *)
(***************************************************************************)
\* leads with and without a site, with and without an e-mail
HunterLeadsIn ==
    { [Lead(<<"a">>, "restaurante") EXCEPT !.site = st, !.email = em] :
        st \in {"none", "web"}, em \in BOOLEAN }

HunterBatches == UNION {[1..n -> HunterLeadsIn] : n \in 0..MaxBatch}

\* enrich_leads(leads): the account check answers `remaining` searches
HunterEnrichLeadsCall ==
    /\ ncalls = 0
    /\ "remaining" \in DOMAIN arg
    /\ ret' = [enriched |-> HunterEnrichLeads(arg.leads, arg.data, arg.remaining),
               used |-> HunterUsed(arg.leads, arg.remaining, 0)]
    /\ ncalls' = 1
    /\ UNCHANGED << pipeline, remote, arg >>

HunterInit ==
    /\ StartPipeline(TRUE) /\ hunter /\ ~sync_to_airtable /\ ~use_cache
    /\ \E b \in HunterBatches :
         arg \in [leads : {b}, data : [1..Len(b) -> HunterData],
                  remaining : 0..Len(b)]
    /\ ret = <<>>
    /\ ncalls = 0

HunterNext == HunterEnrichLeadsCall

HunterSpec == HunterInit /\ [][HunterNext]_vars

(***************************************************************************)
(* Properties of run().  The history variables describe the run of the     *)
(* process that is alive or has last ended; a killed process has none.     *)
(***************************************************************************)
InRun == pc \in (Running \ {"ready"}) \cup {"done", "returned", "failed"}

Resumed == resumeArg /\ ckptAtStart.state = "full"

LastStage == IF airtable THEN 6 ELSE 5

\* C1: a run asked to resume that finds a readable checkpoint of stage k
\* starts from the checkpoint's leads and summary, executes no stage 1..k
\* (no search, no filter_new) and executes k+1..5 in order and then the
\* sync; any other run starts at stage 0 with no leads.
C1_ResumeFromCheckpoint ==
    InRun =>
      LET k == IF Resumed THEN ckptAtStart.data.stage ELSE 0
      IN  /\ resume = Resumed
          /\ resume_stage = k
          /\ Resumed => k \in 1..5
          /\ pc = "preflight" =>
                /\ leads = (IF Resumed THEN ckptAtStart.data.leads ELSE <<>>)
                /\ results = (IF Resumed THEN ckptAtStart.data.results
                                         ELSE EmptyResults)
          /\ \A j \in 1..Len(executed) : executed[j] = k + j
          /\ Resumed => calls \cap {"search", "filter_new"} = {}
          /\ pc = "done" => Len(executed) = LastStage - k

C1_Witness ==
    /\ pc = "done"
    /\ Resumed
    /\ ckptAtStart.data.stage = 3
    /\ ckptAtStart.data.leads # <<>>
    /\ executed = <<4, 5, 6>>

C3_ResumeAfterDeath ==
    pc = "preflight" /\ resumeArg /\ lastSaved.state = "full" =>
      /\ ckptAtStart = lastSaved
      /\ resume
      /\ resume_stage = lastSaved.data.stage
      /\ leads = lastSaved.data.leads

\* the death that C3 is about: inside _save_checkpoint, after open() and
\* before json.dump has written the record
C3_Witness ==
    /\ pc = "killed"
    /\ lastSaved.state = "full"
    /\ ckptFile.state = "partial"

AfterSync == {"cache", "cache_open", "cache_write", "export", "finish"}

\* C4 (as the code has it): each of the stages 1..5 commits a checkpoint
\* with its own index, all the leads and the accumulated summary before
\* the next stage is entered; the sync stage commits none, so after the
\* sync the file still holds the checkpoint of stage 5, which differs
\* from the leads in memory by what the sync changed.
C4_StagesCommit ==
    /\ pc \in (StagePcs \cup {"stage6"}) /\ executed # <<>> =>
          ckptFile = [state |-> "full",
                      data |-> [stage |-> executed[Len(executed)],
                                leads |-> leads, results |-> results]]
    /\ pc \in AfterSync =>
          /\ ckptFile.state = "full"
          /\ ckptFile.data.stage = 5
          /\ airtable => executed[Len(executed)] = 6

C4_Witness ==
    /\ pc = "cache"
    /\ executed = <<1, 2, 3, 4, 5, 6>>
    /\ ckptFile.data.stage = 5
    /\ leads # ckptFile.data.leads

\* C4 (as the claim has it): the sync stage, too, has committed a
\* checkpoint with its own index when the controller goes on.
C4_SyncCommits ==
    pc = "cache" /\ airtable =>
        ckptFile = [state |-> "full",
                    data |-> [stage |-> 6, leads |-> leads, results |-> results]]

\* C5: the stage indexes written to the checkpoint in one run go up by 1,
\* from 1 on a fresh run and from k+1 on a run resumed from stage k.
C5_IndexesIncrease ==
    InRun =>
      /\ \A j \in 1..Len(written) : written[j] = resume_stage + j
      /\ Len(written) <= 5 - resume_stage

C5_Witness ==
    /\ pc = "done"
    /\ resume_stage = 2
    /\ written = <<3, 4, 5>>

\* C6: the checkpoint file is removed only by the step that completes a
\* run in full; a step that ends a run early or by a failure changes no
\* checkpoint file, and an early return leaves the file as the run found
\* it.
C6_DeletedOnlyOnSuccess ==
    [][ /\ (ckptFile.state # "nofile" /\ ckptFile'.state = "nofile") =>
              (pc = "finish" /\ pc' = "done")
        /\ (pc \in Running /\ pc' \in {"returned", "failed"}) =>
              ckptFile' = ckptFile
        /\ pc' = "returned" => ckptFile' = ckptAtStart' ]_vars

\* an early return of a run that was not asked to resume and found the
\* checkpoint an earlier run had left
C6_Witness ==
    /\ pc = "returned"
    /\ ~resumeArg
    /\ ckptFile.state = "full"
    /\ ckptFile = ckptAtStart

\* C7: with a sync collaborator, test_connection is called before the
\* search on every run; when it answers false the run returns a summary
\* with an 'error' field, having called nothing else and having written or
\* removed no checkpoint and changed no cache.
C7_PreflightFirst ==
    InRun /\ airtable =>
      /\ calls # {} => "test_connection" \in calls
      /\ conn = "denied" =>
            /\ pc = "returned"
            /\ "error" \in DOMAIN results
            /\ calls = {"test_connection"}
            /\ executed = <<>> /\ written = <<>>
            /\ ckptFile = ckptAtStart
            /\ cache = LoadCache(cacheFile)

C7_Witness ==
    /\ pc = "returned"
    /\ conn = "denied"
    /\ resume
    /\ ckptFile.state = "full"
    /\ cacheFile.state = "full"

ScrapingStats == results.stages["scraping"]

Searched == InRun /\ ~resume /\ "scraping" \in DOMAIN results.stages

\* C8 (as the claim has it): after the cache commit of a run with cache
\* and sync, a lead whose sync failed has its fingerprint absent from the
\* cache, and a lead whose sync succeeded has it present.
C8_FailedLeadsNotCached ==
    Searched /\ use_cache /\ airtable /\ pc \in {"cache_open", "export"} =>
      \A i \in 1..Len(leads) :
         Exists(cache, leads[i]) <=> leads[i].synced_to_airtable

\* two leads of one batch with one fingerprint, one synced and one not
C8_Witness ==
    /\ Searched /\ use_cache /\ airtable
    /\ pc = "export"
    /\ Len(leads) = 2
    /\ GenerateKey(leads[1]) = GenerateKey(leads[2])
    /\ leads[1].synced_to_airtable /\ ~leads[2].synced_to_airtable
    /\ Exists(LoadCache(cacheFile), leads[2])

\* C9: when the search finds no lead the run returns at once: the summary
\* has no total_leads (or has 0), and nothing else was called, no stage
\* after the search ran, and no checkpoint or cache was written.
C9_EmptySearchReturns ==
    Searched /\ ScrapingStats.leads_found = 0 =>
      /\ pc = "returned"
      /\ "total_leads" \in DOMAIN results => results["total_leads"] = 0
      /\ calls \subseteq {"test_connection", "search"}
      /\ executed = <<1>> /\ written = <<>>
      /\ leads = <<>>
      /\ ckptFile = ckptAtStart
      /\ cache = (IF use_cache THEN LoadCache(cacheFile) ELSE EmptyCache)

C9_Witness ==
    /\ Searched /\ ScrapingStats.leads_found = 0
    /\ pc = "returned"
    /\ use_cache /\ airtable
    /\ ckptFile.state = "full"

\* C10: with the cache on, when every lead found is already cached the
\* run returns early with total_leads = 0, new_leads = 0, cached_skipped
\* = the number found and no 'error'; no later stage runs and no
\* checkpoint is written.
C10_AllDuplicatesReturn ==
    Searched /\ use_cache /\ ScrapingStats.leads_found > 0
             /\ ScrapingStats.new_leads = 0 =>
      /\ pc = "returned"
      /\ "total_leads" \in DOMAIN results /\ results["total_leads"] = 0
      /\ ScrapingStats.cached_skipped = ScrapingStats.leads_found
      /\ "error" \notin DOMAIN results
      /\ calls \subseteq {"test_connection", "search", "filter_new"}
      /\ executed = <<1>> /\ written = <<>>
      /\ ckptFile = ckptAtStart

C10_Witness ==
    /\ Searched /\ use_cache
    /\ pc = "returned"
    /\ ScrapingStats.leads_found = 2
    /\ ScrapingStats.new_leads = 0
    /\ ScrapingStats.cached_skipped = 2
    /\ results["total_leads"] = 0

Has(key) == key \in DOMAIN results

FullSummary ==
    Has("total_leads") /\ Has("duration_seconds") /\ Has("finished_at")

\* the three summaries run() returns before the first checkpoint
ErrorReturn ==
    /\ Has("error") /\ conn = "denied"
    /\ ~Has("total_leads")

EmptyReturn ==
    /\ ~Has("error") /\ ~Has("total_leads")
    /\ "scraping" \in DOMAIN results.stages
    /\ ScrapingStats.leads_found = 0

DuplicatesReturn ==
    /\ ~Has("error")
    /\ Has("total_leads") /\ results["total_leads"] = 0
    /\ use_cache
    /\ "scraping" \in DOMAIN results.stages
    /\ ScrapingStats.leads_found > 0 /\ ScrapingStats.new_leads = 0

Processed ==
    IF Resumed THEN Len(ckptAtStart.data.leads)
    ELSE IF use_cache THEN ScrapingStats.new_leads
    ELSE ScrapingStats.leads_found

StageStats ==
    {"scraping", "website_analysis", "social_extraction", "scoring"}
      \cup (IF hunter THEN {"hunter_enrichment"} ELSE {})
      \cup (IF airtable THEN {"airtable_sync"} ELSE {})

\* C12: a run that completes has removed the checkpoint and returns a
\* summary with total_leads = the number of leads that went through the
\* stages, duration_seconds, and the statistics of every stage that ran.
C12_FullSummary ==
    pc = "done" =>
      /\ ckptFile.state = "nofile"
      /\ Has("total_leads") /\ results["total_leads"] = Processed
      /\ Processed = Len(leads) /\ Processed > 0
      /\ Has("duration_seconds")
      /\ DOMAIN results.stages = StageStats
      /\ results.stages["scoring"].total = Processed
      /\ airtable => results.stages["airtable_sync"].total = Processed

C12_Witness ==
    /\ pc = "done"
    /\ Resumed /\ hunter /\ airtable
    /\ ckptAtStart.data.stage = 2
    /\ results["total_leads"] = 2
    /\ ckptFile.state = "nofile"

\* C15: without a hunter, stage 4 calls no enrichment, leaves leads and
\* summary as they are and goes on to save a checkpoint with index 4,
\* which holds those same leads and summary.
C15_DisabledEnrichment ==
    [][ ~hunter =>
          /\ (pc = "stage4" /\ RunsStage(resume_stage, 4) /\ pc' # "killed") =>
                /\ pc' = "save_open" /\ saving' = 4
                /\ leads' = leads /\ results' = results /\ calls' = calls
                /\ "hunter_enrichment" \notin DOMAIN results'.stages
          /\ (pc = "save_write" /\ saving = 4 /\ pc' = "stage5") =>
                ckptFile' = [state |-> "full",
                             data |-> [stage |-> 4, leads |-> leads,
                                       results |-> results]] ]_vars

C15_Witness ==
    /\ ~hunter
    /\ pc = "stage5"
    /\ executed = <<1, 2, 3, 4>>
    /\ written = <<1, 2, 3, 4>>
    /\ ckptFile.data.stage = 4
    /\ "hunter_enrich_leads" \notin calls

AfterCommit == {"cache_open", "cache_write", "export", "finish", "done"}

\* C16 (under DegradedSpec): when sync is asked for and the collaborator
\* cannot be constructed, the controller has no sync collaborator: a run
\* makes no pre-flight check and no sync, goes through the other stages,
\* and its cache commit hands every processed lead to the cache.
C16_FailedConstructionDisables ==
    sync_to_airtable /\ ~credentials =>
      /\ ~airtable
      /\ InRun =>
            /\ calls \cap {"test_connection", "sync_leads"} = {}
            /\ conn = "none"
            /\ \A j \in 1..Len(executed) : executed[j] # 6
            /\ "airtable_sync" \notin DOMAIN results.stages
            /\ "error" \notin DOMAIN results
            /\ pc = "done" => Len(executed) = 5 - resume_stage
            /\ (use_cache /\ pc \in AfterCommit) =>
                  /\ "add_many" \in calls
                  /\ \A i \in 1..Len(leads) :
                        /\ ~leads[i].synced_to_airtable
                        /\ Exists(cache, leads[i])

C16_Witness ==
    /\ sync_to_airtable /\ ~credentials /\ use_cache
    /\ pc = "done"
    /\ executed = <<1, 2, 3, 4, 5>>
    /\ Len(leads) = 2
    /\ cacheFile.state = "full"
    /\ Exists(cacheFile.data, leads[1])

\* the bucket table as the specification states it
Bucket(score) ==
    IF score \in 80..100 THEN "hot"
    ELSE IF score \in 60..79 THEN "warm"
    ELSE IF score \in 40..59 THEN "cold"
    ELSE "low"

Consistent(lead) ==
    /\ lead.score \in 0..100
    /\ lead.classificacao = Bucket(lead.score)
    /\ ~lead.score_calculated => lead.score = 0

\* C17: in every state of a run every lead, in memory and in the
\* checkpoint file, has the classification of its score's bucket; a lead
\* not scored yet has score 0 and is low.
C17_ClassificationFollowsScore ==
    /\ \A i \in 1..Len(leads) : Consistent(leads[i])
    /\ \A i \in 1..Len(ckptFile.data.leads) : Consistent(ckptFile.data.leads[i])
    /\ \A k \in DOMAIN cache.leads :
          cache.leads[k].classificacao = Bucket(cache.leads[k].score)

C17_Witness ==
    /\ pc = "done"
    /\ Len(leads) = 2
    /\ leads[1].classificacao = "hot" /\ leads[1].score >= 80
    /\ leads[2].classificacao = "low" /\ leads[2].score > 0

\* who a lead is: the fields no stage writes
LeadId(l) == << l.nome, l.cidade, l.endereco >>

\* how many leads of each identity a collection holds
IdBag(ls) ==
    [k \in {LeadId(ls[i]) : i \in 1..Len(ls)} |->
        Cardinality({i \in 1..Len(ls) : LeadId(ls[i]) = k})]

\* the positions of run() after the search stage
PostSearch == Running \ {"ready", "preflight", "stage1"}

\* the number of leads that left the search stage, as stage 1 recorded it:
\* new_leads when the cache filtered, leads_found when no cache is used
LeftSearch(res) ==
    IF "new_leads" \in DOMAIN res.stages["scraping"]
    THEN res.stages["scraping"].new_leads
    ELSE res.stages["scraping"].leads_found

\* C37: no step of run() after the search stage adds or drops a lead: the
\* collection holds the same identities, each as often, before and after
\* the step, also when the step fails for single leads or as a whole; and
\* the total_leads a completed fresh run reports is the number of leads
\* the search stage recorded as new.
C37_StagesKeepLeads ==
    [][ /\ (pc \in PostSearch /\ pc' \in PostSearch \cup {"done", "failed"}) =>
              IdBag(leads') = IdBag(leads)
        /\ (pc = "finish" /\ pc' = "done" /\ ~resume) =>
              /\ results'["total_leads"] = LeftSearch(results')
              /\ results'["total_leads"] = Len(leads') ]_vars

\* a completed fresh run with the cache on and two new leads, the first of
\* which failed in the site analysis and in the social extraction
C37_Witness ==
    /\ pc = "done" /\ ~resume /\ use_cache
    /\ results.stages["scraping"].new_leads = 2
    /\ results["total_leads"] = 2
    /\ \E i \in 1..2 :
          leads[i].site = "web" /\ ~leads[i].site_ativo /\ ~leads[i].social_enriched

\* C38: a checkpoint file written in full by run() holds at least one lead
\* and a stage index from 1 to 5; the scoring stage never starts on an
\* empty collection, in a fresh run or in one resumed from such a
\* checkpoint; so the scoring summary in the results is never the empty
\* one and has its mean and its counts.
C38_CheckpointAndScoringNonEmpty ==
    /\ ckptFile.state = "full" =>
          /\ ckptFile.data.leads # <<>>
          /\ ckptFile.data.stage \in 1..5
    /\ (pc = "stage5" /\ resume_stage < 5) => leads # <<>>
    /\ (InRun /\ "scoring" \in DOMAIN results.stages) =>
          /\ ~results.stages["scoring"].empty
          /\ results.stages["scoring"].total = Len(leads)

\* a run resumed from the checkpoint of stage 4 has scored its leads and is
\* about to write checkpoint 5
C38_Witness ==
    /\ pc = "save_open" /\ saving = 5
    /\ resume /\ resume_stage = 4
    /\ ckptFile.state = "full" /\ ckptFile.data.stage = 4
    /\ leads # <<>>
    /\ "scoring" \in DOMAIN results.stages
    /\ ~results.stages["scoring"].empty

(***************************************************************************)
(* Properties of repeated run(resume=True), under ResumeSpec.              *)
(***************************************************************************)
Completed == pc = "done" /\ FullSummary /\ ckptFile = NoFile

\* the stage index of the checkpoint last written in full
Committed == IF lastSaved.state = "full" THEN lastSaved.data.stage ELSE 0

\* across the runs the stored index does not go down (the removal at the
\* end of a full run apart) and a stage that runs is above it
IndexesAdvance ==
    /\ lastSaved'.state = "full" => Committed' >= Committed
    /\ Len(executed') > Len(executed) =>
          executed'[Len(executed')] > Committed

\* C40 (as the claim has it): every run that fails is followed, after
\* finitely many more runs, by a run that returns the full summary and
\* removes the checkpoint.
C40_EveryRetryCompletes == RunFailed ~> Completed

\* C40: a run that fails with a checkpoint on disk is followed, after
\* finitely many more runs, by a run that returns the full summary and
\* removes the checkpoint; the stored stage index never goes down and no
\* stage at or below it is executed.
C40_ResumeCompletes ==
    /\ (RunFailed /\ ckptFile.state = "full") ~> Completed
    /\ [][IndexesAdvance]_vars

\* the third run, resumed after two failures, has completed
C40_Witness ==
    /\ Completed
    /\ runs = MaxFailures + 1
    /\ resume /\ resume_stage >= 2
    /\ executed # <<>>

(***************************************************************************)
(* Properties of sync_leads, under SyncSpec.                               *)
(***************************************************************************)
Failed(i) == arg.outcomes[i] = "error"

\* C13: sync_leads goes through every lead of the list whatever happens to
\* the others: the counts created + updated + errors add up to the number
\* of leads, errors counts the leads whose upsert raised, and the call sets
\* a lead's synced flag exactly when that lead's upsert did not raise.
C13_SyncIsolatesFailures ==
    ncalls > 0 =>
      LET n == Len(arg.leads)
      IN  /\ Len(ret.leads) = n
          /\ ret.created + ret.updated + ret.errors = n
          /\ ret.errors = Cardinality({i \in 1..n : Failed(i)})
          /\ \A i \in 1..n :
                ret.leads[i] =
                  [arg.leads[i] EXCEPT !.synced_to_airtable = @ \/ ~Failed(i)]

\* the first lead fails and the second is created all the same
C13_Witness ==
    /\ ncalls > 0
    /\ Len(arg.leads) = 2
    /\ arg.outcomes = <<"error", "ok">>
    /\ ~arg.leads[1].synced_to_airtable /\ ~arg.leads[2].synced_to_airtable
    /\ ~ret.leads[1].synced_to_airtable /\ ret.leads[2].synced_to_airtable
    /\ ret.errors = 1 /\ ret.created = 1

\* C14 (as the claim has it): after any sequence of sync_leads calls the
\* remote table holds at most one record per (name, city), also when a
\* lookup fails and when a batch holds the same name and city twice.
C14_OneRecordPerKey ==
    \A k \in DOMAIN remote : remote[k] <= 1

\* a lead whose record exists is looked up, the lookup fails, and a second
\* record is created
C14_Witness ==
    /\ ncalls > 0
    /\ \E i \in 1..Len(arg.leads) :
          /\ arg.outcomes[i] = "lookup_failed"
          /\ RemoteCount(arg.remote, RemoteKey(arg.leads[i])) = 1
          /\ RemoteCount(remote, RemoteKey(arg.leads[i])) = 2
          /\ ret.leads[i].synced_to_airtable

(***************************************************************************)
(* Properties of calculate_score, under ScoreSpec.                         *)
(***************************************************************************)
Scored == ncalls = 1 /\ "lead" \in DOMAIN arg

RawSum == RawScore(LeadScorer(arg.weights), arg.lead)

\* C18: for every lead and weights table the score calculate_score sets
\* is in 0..100: the sum of the three blocks and the bonus where that is
\* in range, 100 where the sum is larger (the default table reaches 105
\* and no more), 0 where it is negative.
C18_ScoreClamped ==
    Scored =>
      /\ ret.score \in 0..100
      /\ RawSum > 100 => ret.score = 100
      /\ RawSum < 0 => ret.score = 0
      /\ RawSum \in 0..100 => ret.score = RawSum
      /\ DOMAIN arg.weights = {} => RawSum \in 0..105
      /\ ret = [arg.lead EXCEPT !.score = ret.score,
                                !.classificacao = ret.classificacao,
                                !.score_calculated = TRUE]

\* the default table and a lead with every field set in a priority category
C18_Witness ==
    /\ Scored
    /\ DOMAIN arg.weights = {}
    /\ RawSum = 105
    /\ ret.score = 100

\* only name and category are set
Unpopulated == arg.lead = Lead(arg.lead.nome, arg.lead.categoria)

FullyPopulated ==
    /\ arg.lead.telefone /\ arg.lead.email
    /\ arg.lead.site # "none" /\ arg.lead.site_https /\ arg.lead.site_ativo
    /\ arg.lead.instagram
    /\ arg.lead.linkedin # "none"
    /\ (arg.lead.linkedin_company_id \/ arg.lead.linkedin = "company")
    /\ arg.lead.rating >= 40 /\ arg.lead.num_reviews >= 50 /\ arg.lead.hours
    /\ arg.lead.categoria \in PRIORITY_CATEGORIES

\* C21: a lead with phone, email, active HTTPS site, Instagram, LinkedIn
\* company page, rating >= 4.0, reviews >= 50, opening hours and a priority
\* category is scored >= 80 and hot by the default weights table (its raw
\* sum is 100 or more, so the score is 100), and under every table the
\* score is exactly 100 whenever the raw sum exceeds 100.
C21_CompleteLeadHot ==
    Scored /\ FullyPopulated =>
      /\ DOMAIN arg.weights = {} =>
            /\ ret.score >= 80
            /\ ret.classificacao = "hot"
            /\ RawSum >= 100 /\ ret.score = 100
      /\ RawSum > 100 => ret.score = 100 /\ ret.classificacao = "hot"

\* a recent Instagram post: the raw sum is 105 and the score is clamped
C21_Witness ==
    /\ Scored /\ FullyPopulated
    /\ DOMAIN arg.weights = {}
    /\ arg.lead.instagram_last_post = 10
    /\ arg.lead.linkedin = "company"
    /\ RawSum > 100
    /\ ret.score = 100 /\ ret.classificacao = "hot"

(***************************************************************************)
(* Properties of two calls of calculate_score, under PairSpec.             *)
(***************************************************************************)
\* the two calls were made on leads that differ in the category only, one
\* of them in a priority category
TwinScored ==
    /\ ncalls = 2
    /\ ret.second.categoria # ret.first.categoria
    /\ ret.first.categoria = "restaurante" \/ ret.second.categoria = "restaurante"

\* the priority lead and the other lead of the pair, as scored
PriorityOfPair == IF ret.first.categoria = "restaurante" THEN ret.second ELSE ret.first
OtherOfPair == IF ret.first.categoria = "restaurante" THEN ret.first ELSE ret.second

\* the category credit and the bonus the scorer in use gives
CategoryGain ==
    LET w == IF DOMAIN arg.weights = {} THEN SCORING_WEIGHTS ELSE arg.weights
    IN  (IF "categoria_relevante" \in DOMAIN w THEN w["categoria_relevante"] ELSE 5)
        + PRIORITY_BONUS

\* C22 (as the code has it): of two leads equal in every field but the
\* category, one in a priority category (in any letter case) and one
\* outside, the priority lead's score is the other lead's sum before
\* clamping plus category credit plus bonus, clamped to 0..100.  Where no
\* weight is negative this is min(100, other score + credit + bonus), +10
\* with the default table, and strictly more than the other score
\* whenever that is below 100.
C22_PriorityAddsCreditAndBonus ==
    TwinScored =>
      LET w == IF DOMAIN arg.weights = {} THEN SCORING_WEIGHTS ELSE arg.weights
          r == RawScore(w, [arg.lead EXCEPT !.categoria = "restaurante"])
      IN  /\ PriorityOfPair.score = Max2(0, Min2(100, r + CategoryGain))
          /\ (\A k \in DOMAIN w : w[k] >= 0) =>
                /\ PriorityOfPair.score = Min2(100, OtherOfPair.score + CategoryGain)
                /\ OtherOfPair.score < 100 => PriorityOfPair.score > OtherOfPair.score
          /\ DOMAIN arg.weights = {} =>
                PriorityOfPair.score = Min2(100, OtherOfPair.score + 10)

\* a category written with capitals, scored 10 above its twin
C22_Witness ==
    /\ TwinScored
    /\ DOMAIN arg.weights = {}
    /\ PriorityOfPair.categoria = "Clinica Medica"
    /\ OtherOfPair.score = 40
    /\ PriorityOfPair.score = 50

\* C22 (as the claim has it): under every weights table the priority
\* lead's score is min(100, other score + credit + bonus), strictly more
\* than the other score whenever that is below 100.
C22_PriorityAddsToScore ==
    TwinScored =>
      /\ PriorityOfPair.score = Min2(100, OtherOfPair.score + CategoryGain)
      /\ OtherOfPair.score < 100 => PriorityOfPair.score > OtherOfPair.score

\* the two calls were made on the same lead with the same weights table
SameLeadScored ==
    /\ ncalls = 2
    /\ ret.second.categoria = ret.first.categoria
    /\ \A f \in DOMAIN arg.lead \ {"score", "classificacao", "score_calculated"} :
          ret.first[f] = arg.lead[f] /\ ret.second[f] = arg.lead[f]

\* C23: two calls of calculate_score on leads with equal fields and equal
\* weights tables give the same score and the same classification,
\* whatever the moment of each call.
C23_Deterministic ==
    SameLeadScored =>
      /\ ret.second.score = ret.first.score
      /\ ret.second.classificacao = ret.first.classificacao

\* the same lead, scored again some days later, gets another score
C23_Witness ==
    /\ SameLeadScored
    /\ arg.lead.instagram /\ arg.lead.instagram_last_post = 10
    /\ ret.elapsed > 20
    /\ ret.second.score # ret.first.score

(***************************************************************************)
(* Properties of score_leads and get_summary, under BatchSpec.             *)
(***************************************************************************)
BatchScored == ncalls = 1 /\ "batch" \in DOMAIN arg

\* the ways of matching the positions of the output with those of the input
Matchings(n) == {p \in [1..n -> 1..n] : \A i, j \in 1..n : p[i] = p[j] => i = j}

\* the same lead, whatever scoring wrote on it
SameLead(a, b) ==
    \A f \in DOMAIN a \ {"score", "classificacao", "score_calculated"} : a[f] = b[f]

\* C24: the list score_leads returns is in non-increasing order of score,
\* and leads of equal score are in the order they had in the input.
C24_SortedAndStable ==
    BatchScored =>
      LET out == ret.scored
          n == Len(arg.batch)
      IN  /\ Len(out) = n
          /\ \A i, j \in 1..n : i < j => out[i].score >= out[j].score
          /\ \E p \in Matchings(n) :
                /\ \A i \in 1..n : SameLead(out[i], arg.batch[p[i]])
                /\ \A i, j \in 1..n :
                      (i < j /\ out[i].score = out[j].score) => p[i] < p[j]

\* three leads, the first and the last of equal score and the middle one
\* of a higher score
C24_Witness ==
    /\ BatchScored
    /\ Len(arg.batch) = 3
    /\ \A i \in 1..3 : arg.outcomes[i] = "ok"
    /\ ret.scored[2].score = ret.scored[3].score
    /\ ret.scored[1].score > ret.scored[2].score
    /\ ret.scored[2] # ret.scored[3]
    /\ SameLead(ret.scored[1], arg.batch[2])
    /\ SameLead(ret.scored[2], arg.batch[1])
    /\ ~SameLead(ret.scored[2], arg.batch[3])

\* C25: when scoring a lead raises, score_leads still returns a list of
\* the same leads and the same length; the lead that failed is in it as it
\* was before the call (score, classification and score_calculated
\* included) and every other lead is scored.
C25_ScoringIsolatesFailures ==
    BatchScored =>
      LET out == ret.scored
          n == Len(arg.batch)
      IN  /\ Len(out) = n
          /\ \E p \in Matchings(n) :
                \A i \in 1..n :
                   IF arg.outcomes[p[i]] = "raises"
                     THEN out[i] = arg.batch[p[i]]
                     ELSE /\ SameLead(out[i], arg.batch[p[i]])
                          /\ out[i].score_calculated
                          /\ out[i].score \in 0..100
                          /\ out[i].classificacao = Bucket(out[i].score)

\* the lead that carried score 70 fails and stays first, the others are
\* scored behind it
C25_Witness ==
    /\ BatchScored
    /\ Len(arg.batch) = 3
    /\ arg.outcomes = <<"ok", "raises", "ok">>
    /\ arg.batch[2].score = 70
    /\ ret.scored[1] = arg.batch[2]
    /\ ret.scored[2].score_calculated /\ ret.scored[3].score_calculated
    /\ ret.scored[2].score > 0

Summarised == ncalls = 2 /\ "summary" \in DOMAIN ret

\* C26: get_summary of an empty list is the empty result; of a non-empty
\* list it gives total = the number of leads, four classification counts
\* that add up to total, score_min and score_max the least and the
\* greatest score, and a mean between them.
C26_SummaryTotals ==
    Summarised =>
      LET ls == ret.leads
          sm == ret.summary
      IN  IF ls = <<>> THEN sm = [empty |-> TRUE]
          ELSE /\ ~sm.empty
               /\ sm.total = Len(ls)
               /\ sm.hot_leads + sm.warm_leads + sm.cold_leads + sm.low_leads = sm.total
               /\ \A i \in 1..Len(ls) : sm.score_min <= ls[i].score /\ ls[i].score <= sm.score_max
               /\ \E i \in 1..Len(ls) : ls[i].score = sm.score_min
               /\ \E i \in 1..Len(ls) : ls[i].score = sm.score_max
               /\ sm.score_min * sm.total <= sm.score_sum
               /\ sm.score_sum <= sm.score_max * sm.total

\* three leads of three classes, one of them not scored
C26_Witness ==
    /\ Summarised
    /\ ~ret.summary.empty
    /\ ret.summary.total = 3
    /\ ret.summary.hot_leads = 1 /\ ret.summary.low_leads = 1 /\ ret.summary.warm_leads = 1
    /\ ret.summary.score_min < ret.summary.score_max
    /\ \E i \in 1..3 : ~ret.leads[i].score_calculated

(***************************************************************************)
(* Properties of the cache, under CacheSpec.                               *)
(***************************************************************************)
\* the positions of a batch whose fingerprint is not in a cache
AbsentIn(c, batch) ==
    {j \in 1..Len(batch) : GenerateKey(batch[j]) \notin DOMAIN c.leads}

\* C27: filter_new returns the leads of the batch whose fingerprint was
\* not in the cache when it was called, in the order of the batch and as
\* they were given; the entries of the cache are as before, and
\* duplicates_skipped has grown by the number of leads not returned.
C27_FilterNewExact ==
    arg.op = "filter_new" =>
      LET new == AbsentIn(arg.before, arg.batch)
      IN  /\ Len(ret) = Cardinality(new)
          /\ \E f \in [1..Len(ret) -> new] :
                /\ \A i, j \in 1..Len(ret) : i < j => f[i] < f[j]
                /\ \A i \in 1..Len(ret) : ret[i] = arg.batch[f[i]]
          /\ cache.leads = arg.before.leads
          /\ cache.total_processed = arg.before.total_processed
          /\ cache.duplicates_skipped
                = arg.before.duplicates_skipped + (Len(arg.batch) - Len(ret))

\* a batch of a cached lead (written with other case and blanks) and a
\* new one
C27_Witness ==
    /\ arg.op = "filter_new"
    /\ Len(arg.batch) = 2
    /\ arg.batch[1].nome = <<" ", "A">>
    /\ DOMAIN arg.before.leads = {<<"a", "|", "b", "h">>}
    /\ ret = <<arg.batch[2]>>
    /\ cache.duplicates_skipped = arg.before.duplicates_skipped + 1

\* lower-cased and trimmed at both ends
Norm(t) == Strip(Lower(t))

\* lower-cased, every blank removed
RECURSIVE NoBlanks(_)
NoBlanks(t) ==
    IF t = <<>> THEN <<>>
    ELSE (IF Head(t) = " " THEN <<>> ELSE <<LowerChar(Head(t))>>) \o NoBlanks(Tail(t))

\* C28 (as the code has it): exists(lead2) is true exactly when a cached
\* lead has the name and the city of lead2 up to letter case and blanks at
\* the two ends; blanks inside a name or a city are part of the
\* fingerprint.
C28_ExistsUpToCaseAndTrim ==
    arg.op = "exists" =>
      (ret <=> \E k \in DOMAIN cache.leads :
                  /\ Norm(cache.leads[k].nome) = Norm(arg.lead.nome)
                  /\ Norm(cache.leads[k].cidade) = Norm(arg.lead.cidade))

\* the lead was added with capitals and outer blanks, and is asked for in
\* small letters
C28_Witness ==
    /\ arg.op = "exists"
    /\ arg.lead.nome = <<"a">> /\ arg.lead.cidade = <<"B", "H">>
    /\ \E k \in DOMAIN cache.leads :
          cache.leads[k].nome = <<" ", "A">> /\ cache.leads[k].cidade = <<"b", "h", " ">>
    /\ ret = TRUE

\* C28 (as the claim has it): exists(lead2) is true for every lead2 whose
\* name and city are those of a cached lead up to letter case and
\* whitespace.
C28_ExistsUpToWhitespace ==
    arg.op = "exists" =>
      ((\E k \in DOMAIN cache.leads :
           /\ NoBlanks(cache.leads[k].nome) = NoBlanks(arg.lead.nome)
           /\ NoBlanks(cache.leads[k].cidade) = NoBlanks(arg.lead.cidade))
         => ret)

\* a mutating call has returned and no save has failed
MutatingReturned ==
    /\ pc = "off"
    /\ ~arg.failed
    /\ \/ arg.op \in {"add", "add_many", "filter_new", "clear"}
       \/ arg.op = "clear_old" /\ ret > 0

\* C29: after every mutating call that returned without a storage failure
\* the cache file holds the cache of the process, entries and counters;
\* and a process that died during a save has not left a partial file that
\* the next process loads as an empty cache.
C29_FileFollowsMemory ==
    /\ MutatingReturned => cacheFile = [state |-> "full", data |-> cache]
    /\ ~(arg.op = "open" /\ arg.died = "lib_write" /\ cacheFile.state = "partial")

\* filter_new has skipped a duplicate and returned; the file still has the
\* old counter
C29_Witness ==
    /\ MutatingReturned
    /\ arg.op = "filter_new"
    /\ Len(ret) < Len(arg.batch)
    /\ cacheFile.state = "full" /\ HasKeys(cacheFile.data)
    /\ cacheFile.data.duplicates_skipped < cache.duplicates_skipped
    /\ cacheFile.data.leads = cache.leads

\* C30: clear_old(d) removes the entries added before the day d days back
\* and no other, leaves the kept entries and the two counters as they
\* were, returns the number removed, and goes on to write the file exactly
\* when that number is not 0.
C30_ClearOldExact ==
    [][ (arg'.op = "clear_old" /\ ncalls' = ncalls + 1) =>
          LET keep == {k \in DOMAIN cache.leads :
                          cache.leads[k].added_at >= arg'.now - arg'.days}
          IN  /\ DOMAIN cache'.leads = keep
              /\ \A k \in keep : cache'.leads[k] = cache.leads[k]
              /\ ret' = Cardinality(DOMAIN cache.leads \ keep)
              /\ cache'.total_processed = cache.total_processed
              /\ cache'.duplicates_skipped = cache.duplicates_skipped
              /\ cacheFile' = cacheFile
              /\ pc' = (IF ret' > 0 THEN "lib_open" ELSE "off") ]_vars

\* one entry older than the cutoff went, one added on the day of the
\* cutoff stayed, and the file was written
C30_Witness ==
    /\ arg.op = "clear_old"
    /\ ret = 1
    /\ Cardinality(DOMAIN arg.before.leads) = 2
    /\ \E k \in DOMAIN cache.leads : cache.leads[k].added_at = arg.now - arg.days
    /\ pc = "off" /\ ~arg.failed
    /\ cacheFile = [state |-> "full", data |-> cache]

\* C39: the counter total_processed is at least the number of entries, and
\* equals the number of add operations (one per lead of an add_many) since
\* the last clear, an add of a lead already stored included; filter_new,
\* exists and clear_old leave it alone.
C39_TotalProcessedCountsAdds ==
    HasKeys(cache) =>
      /\ cache.total_processed = arg.adds
      /\ cache.total_processed >= Cardinality(DOMAIN cache.leads)

\* a lead added to a cache that holds its fingerprint: one entry, two adds
C39_Witness ==
    /\ arg.op = "add"
    /\ Exists(arg.before, arg.lead)
    /\ arg.before = CacheAddAt(EmptyCache, Lead(<<"a">>, "restaurante"), 0)
    /\ Cardinality(DOMAIN cache.leads) = 1
    /\ cache.total_processed = 2

\* C31: whatever the cache file holds and whatever write fails, opening
\* the cache and every later call return normally: no cache call raises.
C31_CacheNeverRaises == arg.op # "raised"

\* the file holds {} and exists is called
C31_Witness ==
    /\ arg.op = "raised"
    /\ arg.call = "exists"
    /\ cacheFile = [state |-> "full", data |-> NoKeysCache]
    /\ ~HasKeys(cache)

\* score_leads was called on its own result
ScoredTwice == ncalls = 2 /\ "twice" \in DOMAIN ret

\* C34: scoring a list that score_leads returned gives the same list: the
\* same leads in the same order with the same scores and classifications.
C34_ScoreLeadsIdempotent == ScoredTwice => ret.twice = ret.once

\* a batch of two leads that tie at 10 points after scoring, the first of
\* which came in with 70 points
C34_Witness ==
    /\ ScoredTwice
    /\ Len(arg.batch) = 2
    /\ arg.weights = <<>>
    /\ arg.batch[1].score = 70 /\ arg.batch[2].email
    /\ ret.once[1].score = 10 /\ ret.once[2].score = 10
    /\ ret.twice = ret.once

(***************************************************************************)
(* Properties of the enrichers, under EnrichSpec.                          *)
(***************************************************************************)
SocialExtracted == ncalls = 2 /\ "enriched" \in DOMAIN ret

\* C35: social extraction leaves site_ativo and site_https as the site
\* analysis set them: a site found unreachable is still inactive afterwards.
C35_SiteFieldsKept ==
    SocialExtracted =>
      /\ ret.enriched[1].site_ativo = ret.analyzed[1].site_ativo
      /\ ret.enriched[1].site_https = ret.analyzed[1].site_https

\* the site did not answer the analysis and no page of it could be fetched
C35_Witness ==
    /\ SocialExtracted
    /\ arg.found[1].site = "web"
    /\ ~ret.analyzed[1].site_ativo
    /\ ret.page.kind = "page" /\ ~ret.page.instagram /\ ~ret.page.email
    /\ ret.enriched[1].site_ativo

(***************************************************************************)
(* Properties of HunterEnricher.enrich_leads, under HunterSpec.            *)
(***************************************************************************)
HunterEnriched == ncalls = 1 /\ "remaining" \in DOMAIN arg

\* the leads with a site among the first n of the input
SitesBefore(n) == Cardinality({j \in 1..n : arg.leads[j].site # "none"})

\* C36: enrich_leads sends at most as many domain searches as the account
\* check reported available; a lead without site and a lead reached after
\* the budget is spent come back unmodified; the output holds the same
\* leads in the same order.
C36_HunterWithinBudget ==
    HunterEnriched =>
      /\ ret.used <= arg.remaining
      /\ Len(ret.enriched) = Len(arg.leads)
      /\ \A i \in 1..Len(arg.leads) :
            /\ \A f \in DOMAIN arg.leads[i] \ {"email", "linkedin"} :
                  ret.enriched[i][f] = arg.leads[i][f]
            /\ arg.leads[i].site = "none" => ret.enriched[i] = arg.leads[i]
            /\ SitesBefore(i - 1) >= arg.remaining =>
                  ret.enriched[i] = arg.leads[i]

\* one search available for two leads with a site and one without: the
\* first is enriched, the third is passed through though data was there
C36_Witness ==
    /\ HunterEnriched
    /\ Len(arg.leads) = 3 /\ arg.remaining = 1
    /\ arg.leads[1].site = "web" /\ arg.leads[2].site = "none"
    /\ arg.leads[3].site = "web" /\ ~arg.leads[3].email
    /\ arg.data[3].found
    /\ ret.used = 1
    /\ ret.enriched[1] # arg.leads[1]
    /\ ret.enriched[3] = arg.leads[3]

(***************************************************************************)
(* Properties of _score_digital_presence, under DigitalSpec.               *)
(***************************************************************************)
DigitalScored == ncalls = 1

\* the weight the scorer of the call holds for a key
DigitalWeight(key, default) == WeightGet(LeadScorer(arg.weights), key, default)

\* the LinkedIn part of the block
LinkedinPart ==
    IF arg.lead.linkedin = "none" THEN 0
    ELSE DigitalWeight("tem_linkedin", 10)
         + (IF arg.lead.linkedin_company_id \/ arg.lead.linkedin = "company"
              THEN DigitalWeight("linkedin_company_page", 5) ELSE 0)

\* C33: the Instagram part of the digital-presence block is the Instagram
\* weight plus the whole activity weight when the last post is at most 30
\* days old, plus nothing when it is known and older, plus the floor of
\* half the activity weight when it is unknown; without an Instagram
\* profile it is 0 whatever the last post holds.
C33_InstagramPart ==
    DigitalScored =>
      ret - LinkedinPart =
        (IF ~arg.lead.instagram THEN 0
         ELSE DigitalWeight("tem_instagram", 10)
              + (IF arg.lead.instagram_last_post = -1
                   THEN DigitalWeight("instagram_ativo", 5) \div 2
                 ELSE IF arg.lead.instagram_last_post <= 30
                   THEN DigitalWeight("instagram_ativo", 5)
                 ELSE 0))

\* a profile of unknown activity under the default table: 10 + floor(5 / 2)
C33_Witness ==
    /\ DigitalScored
    /\ arg.lead.instagram /\ arg.lead.instagram_last_post = -1
    /\ arg.weights = <<>>
    /\ arg.lead.linkedin = "none"
    /\ ret = 12

(***************************************************************************)
(* Properties of _fetch_page, under FetchSpec.                             *)
(***************************************************************************)
FetchEnded == arg.phase = "done"

FetchFailed(o) == o # "ok"

\* C32: a page fetch whose GET fails is retried within the same fetch, with
\* a wait between attempts, until an attempt succeeds or MAX_RETRIES
\* attempts were made, and never more often; for both fetchers.
C32_FailedFetchRetried ==
    FetchEnded =>
      /\ Len(arg.attempts) \in 1..MAX_RETRIES
      /\ Len(arg.waits) = Len(arg.attempts) - 1
      /\ FetchFailed(arg.attempts[Len(arg.attempts)]) =>
            Len(arg.attempts) = MAX_RETRIES

\* the social extractor's fetch times out once and returns None
C32_Witness ==
    /\ FetchEnded
    /\ arg.fetcher = "social"
    /\ arg.attempts = << "timeout" >>
    /\ ret = "None"

(***************************************************************************)
(* Properties of _classify_lead, under ClassifySpec.                       *)
(***************************************************************************)
Rows(s) ==
    {j \in 1..Len(LEAD_CLASSIFICATION) :
        LEAD_CLASSIFICATION[j][2] <= s /\ s <= LEAD_CLASSIFICATION[j][3]}

\* C19: for a score in 0..100 _classify_lead answers the one bucket whose
\* range holds the score (hot 80..100, warm 60..79, cold 40..59, low
\* 0..39): exactly one range of the table holds it; a score no range
\* holds is low.
C19_ClassifyPartition ==
    (ncalls = 1 /\ "score" \in DOMAIN arg) =>
      LET s == arg.score
      IN  /\ ret \in {"hot", "warm", "cold", "low"}
          /\ s \in 0..100 =>
                /\ Cardinality(Rows(s)) = 1
                /\ \A j \in Rows(s) : LEAD_CLASSIFICATION[j][1] = ret
                /\ ret = Bucket(s)
          /\ s \notin 0..100 => Rows(s) = {} /\ ret = "low"

C19_Witness ==
    /\ ncalls = 1 /\ "score" \in DOMAIN arg
    /\ arg.score = 79
    /\ ret = "warm"

====
